---- MODULE Spec2Model ----
(***************************************************************************)
(* Breakout-candidate detection of the data platform                       *)
(* (src/pipelines/breakout_detection.py), the output table it upserts into *)
(* (src/db/models/nba/breakout_candidates.py) and the pipeline harness     *)
(* that runs it (src/pipelines/base.py, src/pipelines/context.py,          *)
(* src/api/v1/pipelines.py), with the injury feed it reads                 *)
(* (src/pipelines/espn_injury_status.py) and the background jobs of the    *)
(* pipeline API (src/core/job_manager.py).                                 *)
(*                                                                         *)
(* Numbers: the code works on Python floats.  Averages are modelled as     *)
(* exact rationals [n, d] (d > 0, lowest terms); round(x, 1) is modelled   *)
(* as rounding the exact rational to tenths, half to even.                 *)
(* Dates are day numbers.  A nullable column holds None (<<>>) or          *)
(* Some(v) (<<v>>).                                                        *)
(***************************************************************************)
EXTENDS Integers, Sequences, FiniteSets, TLC

VARIABLES
    injuries,       \* nba.player_injuries: set of [player, report_date, status]
    seasonStats,    \* nba.player_season_stats: set of [player, team, as_of_date, gp, min, fpts]
    position,       \* nba.players.position, by player ("" for NULL or empty)
    gameStats,      \* nba.player_game_stats: set of [player, team, game_date, min, fpts]
    scanOrder,      \* physical row order of an unordered SELECT, as a sequence of players
    candidates,     \* nba.breakout_candidates: set of rows
    nextId,         \* AutoField sequence of nba.breakout_candidates
    pipelineRuns,   \* nba.pipeline_runs: run id -> [pipeline_name, status,
                    \* started_at, completed_at, records_processed, error_message]
    runs,           \* in-flight executions of run(): slot -> thread state
    clock,          \* wall clock, one tick per recorded timestamp
    hist,           \* history: run id -> its as_of_date, the upserts execute computes
                    \* over the input tables, and the output table (and id
                    \* sequence) when the run started and when it ended
    out,            \* what the last call that returned has returned: a helper called
                    \* directly (unit specifications) or run()
    jobs            \* JobManager._jobs: the stored jobs, in insertion order

vars == <<injuries, seasonStats, position, gameStats, scanOrder,
          candidates, nextId, pipelineRuns, runs, clock, hist, out, jobs>>

dbVars == <<injuries, seasonStats, position, gameStats, scanOrder>>

----------------------------------------------------------------------------
(* Bounds of the model *)

NPlayers == 4
NRoster == 3
MaxDate == 3
MaxRuns == 2
MaxRank == 5

Players == 1..NPlayers
Dates == 1..MaxDate
\* The as-of dates of the detection runs: the last two days.
AsOfDates == {MaxDate - 1, MaxDate}
\* Two callers of run_pipeline at a time.
Slots == {1, 2}

----------------------------------------------------------------------------
(* Program constants, src/pipelines/breakout_detection.py:58-73 *)

PROMINENT_MIN_THRESHOLD == 28
PROMINENT_MIN_GP == 20
TEAMMATE_MIN_THRESHOLD == 12
TEAMMATE_MIN_GP == 10
HIGH_USAGE_MIN_FLOOR == 20
MIN_OPP_SAMPLES == 2
LOOKBACK_DAYS == 120
DEFAULT_RANK_BONUS == 4

\* HIGH_USAGE_MULTIPLIER = 1.25
HIGH_USAGE_MULTIPLIER == [n |-> 5, d |-> 4]

DEPTH_RANK_BONUSES == (1 :> 35) @@ (2 :> 25) @@ (3 :> 15) @@ (4 :> 8)

KnownPositions == {"PG", "SG", "SF", "PF", "C", "G", "F"}

POSITION_ADJACENCY ==
    [p \in KnownPositions |->
        CASE p = "PG" -> {"PG", "SG", "G"}
          [] p = "SG" -> {"SG", "PG", "SF", "G"}
          [] p = "SF" -> {"SF", "SG", "PF", "F"}
          [] p = "PF" -> {"PF", "SF", "C", "F"}
          [] p = "C"  -> {"C", "PF"}
          [] p = "G"  -> {"PG", "SG", "G"}
          [] p = "F"  -> {"SF", "PF", "F"}]

\* The position strings of the model, and str.upper() on them.
PositionStrings == {"", "C", "c", "pf", "SG", "G-F"}

Upper(s) ==
    CASE s = "c" -> "C"
      [] s = "pf" -> "PF"
      [] OTHER -> s

None == <<>>
Some(x) == <<x>>

----------------------------------------------------------------------------
(* Exact rationals *)

RECURSIVE Gcd(_, _)
Gcd(a, b) == IF b = 0 THEN a ELSE Gcd(b, a % b)

Abs(x) == IF x < 0 THEN -x ELSE x

Rat(n, d) ==
    LET g == Gcd(Abs(n), d)
    IN  IF n = 0 THEN [n |-> 0, d |-> 1] ELSE [n |-> n \div g, d |-> d \div g]

RInt(i) == [n |-> i, d |-> 1]
RAdd(a, b) == Rat(a.n * b.d + b.n * a.d, a.d * b.d)
RSub(a, b) == Rat(a.n * b.d - b.n * a.d, a.d * b.d)
RMul(a, b) == Rat(a.n * b.n, a.d * b.d)
RLe(a, b) == a.n * b.d <= b.n * a.d
RLt(a, b) == a.n * b.d < b.n * a.d
RMax(a, b) == IF RLe(a, b) THEN b ELSE a
RMin(a, b) == IF RLe(a, b) THEN a ELSE b

\* round(x, 1), in tenths: floor(10x + 1/2), a tie going to the even tenth.
Round1(r) ==
    LET t == 10 * r.n
        q == t \div r.d
        rem2 == 2 * (t % r.d)
    IN  IF rem2 < r.d THEN q
        ELSE IF rem2 > r.d THEN q + 1
        ELSE IF q % 2 = 0 THEN q ELSE q + 1

\* x / gp if gp > 0 else 0
PerGame(x, gp) == IF gp > 0 THEN Rat(x, gp) ELSE RInt(0)

----------------------------------------------------------------------------
(* Sequences of rows *)

RECURSIVE SeqFilter(_, _)
SeqFilter(s, S) ==
    IF s = <<>> THEN <<>>
    ELSE IF Head(s) \in S THEN <<Head(s)>> \o SeqFilter(Tail(s), S)
    ELSE SeqFilter(Tail(s), S)

\* The rows of S (at most one per player) in the order an unordered scan
\* returns them.
Scan(S, ord) ==
    LET ps == SeqFilter(ord, {r.player : r \in S})
    IN  [i \in 1..Len(ps) |-> CHOOSE r \in S : r.player = ps[i]]

----------------------------------------------------------------------------
(* Readers: _get_prominent_injured_players, _get_latest_stats_date *)

InjuredStatuses == {"Out", "Doubtful"}

\* injury_subq joined back to PlayerInjury: each player's record with the
\* greatest report_date <= as_of_date, kept when its status is Out/Doubtful.
LatestInjuries(inj, as_of_date) ==
    {r \in inj :
        /\ r.report_date <= as_of_date
        /\ \A q \in inj :
              (q.player = r.player /\ q.report_date <= as_of_date)
                  => q.report_date <= r.report_date
        /\ r.status \in InjuredStatuses}

\* SELECT MAX(as_of_date) FROM player_season_stats; 0 stands for None.
GetLatestStatsDate(st) ==
    IF st = {} THEN 0
    ELSE CHOOSE d \in {r.as_of_date : r \in st} :
            \A r \in st : r.as_of_date <= d

InjuredRecord(stats, injury, pos) ==
    [player_id |-> stats.player,
     team_id   |-> stats.team,
     position  |-> pos[stats.player],
     avg_min   |-> PerGame(stats.min, stats.gp),
     avg_fpts  |-> PerGame(stats.fpts, stats.gp),
     gp        |-> stats.gp,
     status    |-> injury.status]

GetProminentInjuredPlayers(inj, st, pos, ord, as_of_date) ==
    LET latest_injuries == LatestInjuries(inj, as_of_date)
        injured_player_ids == {r.player : r \in latest_injuries}
        latest_date == GetLatestStatsDate(st)
        season_stats ==
            Scan({s \in st : /\ s.player \in injured_player_ids
                             /\ s.as_of_date = latest_date
                             /\ s.gp >= PROMINENT_MIN_GP}, ord)
        kept == SelectSeq(season_stats,
                    LAMBDA s : ~RLt(PerGame(s.min, s.gp), RInt(PROMINENT_MIN_THRESHOLD)))
    IN  IF latest_injuries = {} THEN <<>>
        ELSE IF latest_date = 0 THEN <<>>
        ELSE [i \in 1..Len(kept) |->
                InjuredRecord(kept[i],
                    CHOOSE r \in latest_injuries : r.player = kept[i].player, pos)]

----------------------------------------------------------------------------
(* Depth chart: _build_position_depth_chart *)

AllPositions == {"PG", "SG", "SF", "PF", "C", "G", "F"}

\* POSITION_ADJACENCY.get(injured_position.upper(), set()), replaced by
\* every known position when empty.
AdjacentPositions(injured_position) ==
    LET key == Upper(injured_position)
        adjacent == IF key \in DOMAIN POSITION_ADJACENCY
                    THEN POSITION_ADJACENCY[key] ELSE {}
    IN  IF adjacent = {} THEN AllPositions ELSE adjacent

\* Variant: the candidate's position compared as stored, without upper().
InGroupCaseSensitive(injured_position, candidate_position) ==
    \/ injured_position = ""
    \/ candidate_position = ""
    \/ candidate_position \in AdjacentPositions(injured_position)

InGroup(injured_position, candidate_position) ==
    \/ injured_position = ""
    \/ Upper(candidate_position) = ""
    \/ Upper(candidate_position) \in AdjacentPositions(injured_position)

\* list.sort(key=avg_min, reverse=True): stable, so equal keys keep their
\* input order.  Insertion from the right keeps that order.
RECURSIVE InsertDesc(_, _)
InsertDesc(e, s) ==
    IF s = <<>> THEN <<e>>
    ELSE IF RLt(e.avg_min, Head(s).avg_min)
         THEN <<Head(s)>> \o InsertDesc(e, Tail(s))
         ELSE <<e>> \o s

\* Variant: the sort without reverse=True.
RECURSIVE InsertAsc(_, _)
InsertAsc(e, s) ==
    IF s = <<>> THEN <<e>>
    ELSE IF RLt(Head(s).avg_min, e.avg_min)
         THEN <<Head(s)>> \o InsertAsc(e, Tail(s))
         ELSE <<e>> \o s

RECURSIVE SortAsc(_)
SortAsc(s) ==
    IF s = <<>> THEN <<>> ELSE InsertAsc(Head(s), SortAsc(Tail(s)))

RECURSIVE SortByAvgMinDesc(_)
SortByAvgMinDesc(s) ==
    IF s = <<>> THEN <<>> ELSE InsertDesc(Head(s), SortByAvgMinDesc(Tail(s)))

CandidateEntry(stats, pos) ==
    [player_id |-> stats.player,
     position  |-> pos[stats.player],
     avg_min   |-> PerGame(stats.min, stats.gp),
     avg_fpts  |-> PerGame(stats.fpts, stats.gp),
     gp        |-> stats.gp]

\* Variant: the teammates query without its team filter.
RotationAnyTeam(st, ord, team_id, injured_player_id, latest_stats_date) ==
    LET teammates_stats ==
            Scan({s \in st : /\ s.as_of_date = latest_stats_date
                             /\ s.player # injured_player_id
                             /\ s.gp >= TEAMMATE_MIN_GP}, ord)
    IN  SelectSeq(teammates_stats,
            LAMBDA s : ~RLt(PerGame(s.min, s.gp), RInt(TEAMMATE_MIN_THRESHOLD)))

\* The rotation candidates of the team: the rows of the teammates query that
\* pass the minutes threshold, before the position filter.
RotationCandidates(st, ord, team_id, injured_player_id, latest_stats_date) ==
    LET teammates_stats ==
            Scan({s \in st : /\ s.team = team_id
                             /\ s.as_of_date = latest_stats_date
                             /\ s.player # injured_player_id
                             /\ s.gp >= TEAMMATE_MIN_GP}, ord)
    IN  SelectSeq(teammates_stats,
            LAMBDA s : ~RLt(PerGame(s.min, s.gp), RInt(TEAMMATE_MIN_THRESHOLD)))

BuildPositionDepthChart(st, pos, ord, team_id, injured_player_id, injured_position, latest_stats_date) ==
    LET rotation == RotationCandidates(st, ord, team_id, injured_player_id,
                                       latest_stats_date)
        grouped == SelectSeq(rotation,
                       LAMBDA s : InGroup(injured_position, pos[s.player]))
        entries == [i \in 1..Len(grouped) |-> CandidateEntry(grouped[i], pos)]
        sorted == SortByAvgMinDesc(entries)
    IN  [i \in 1..Len(sorted) |-> sorted[i] @@ [depth_rank |-> i]]

----------------------------------------------------------------------------
(* Opportunity validator: _get_position_validated_opportunity_stats *)

RECURSIVE SumOver(_, _)
SumOver(S, field) ==
    IF S = {} THEN 0
    ELSE LET g == CHOOSE x \in S : TRUE
         IN  g[field] + SumOver(S \ {g}, field)

\* return None, None, 0.  raised: the call ended in ZeroDivisionError.
NoOpportunity == [min |-> None, fpts |-> None, count |-> 0, raised |-> FALSE]

\* sum(...) / len(validated)
Mean(total, n) == IF n = 0 THEN None ELSE Some(Rat(total, n))

\* Variant: the candidate's games through as_of_date itself.
HighUsageThroughAsOf(gs, candidate_player_id, candidate_avg_min, team_id, as_of_date, lookback_days) ==
    LET start_date == as_of_date - lookback_days
        min_threshold == RMax(RMul(candidate_avg_min, HIGH_USAGE_MULTIPLIER),
                              RInt(HIGH_USAGE_MIN_FLOOR))
    IN  {g \in gs : /\ g.player = candidate_player_id
                    /\ g.team = team_id
                    /\ g.game_date >= start_date
                    /\ g.game_date <= as_of_date
                    /\ ~RLt(RInt(g.min), min_threshold)}

HighUsageGames(gs, candidate_player_id, candidate_avg_min, team_id, as_of_date, lookback_days) ==
    LET start_date == as_of_date - lookback_days
        min_threshold == RMax(RMul(candidate_avg_min, HIGH_USAGE_MULTIPLIER),
                              RInt(HIGH_USAGE_MIN_FLOOR))
    IN  {g \in gs : /\ g.player = candidate_player_id
                    /\ g.team = team_id
                    /\ g.game_date >= start_date
                    /\ g.game_date < as_of_date
                    /\ ~RLt(RInt(g.min), min_threshold)}

\* peers_by_date.get(d, set()): the peers with a box-score row on date d
\* (the peers query has no team filter).
PeersPlayed(gs, position_peer_ids, d) ==
    {g.player : g \in {x \in gs : x.player \in position_peer_ids /\ x.game_date = d}}

\* Variant: every high-usage game kept, whoever played.
UnvalidatedGames(gs, candidate_player_id, candidate_avg_min, team_id, position_peer_ids, as_of_date, lookback_days) ==
    HighUsageGames(gs, candidate_player_id, candidate_avg_min, team_id,
                   as_of_date, lookback_days)

ValidatedGames(gs, candidate_player_id, candidate_avg_min, team_id, position_peer_ids, as_of_date, lookback_days) ==
    {g \in HighUsageGames(gs, candidate_player_id, candidate_avg_min, team_id,
                          as_of_date, lookback_days) :
        position_peer_ids \ PeersPlayed(gs, position_peer_ids, g.game_date) # {}}

\* The averages over the validated games; the division raises on an empty
\* list.
OpportunityAverages(validated) ==
    LET n == Cardinality(validated)
    IN  [min   |-> Mean(SumOver(validated, "min"), n),
         fpts  |-> Mean(SumOver(validated, "fpts"), n),
         count |-> n,
         raised |-> n = 0]

\* Variant: the averages of however many validated games there are.
NoSampleThreshold(gs, candidate_player_id, candidate_avg_min, team_id, position_peer_ids, as_of_date, lookback_days) ==
    LET high_usage_games == HighUsageGames(gs, candidate_player_id,
                                candidate_avg_min, team_id, as_of_date,
                                lookback_days)
        validated == ValidatedGames(gs, candidate_player_id, candidate_avg_min,
                                    team_id, position_peer_ids, as_of_date,
                                    lookback_days)
    IN  IF position_peer_ids = {} THEN NoOpportunity
        ELSE IF high_usage_games = {} THEN NoOpportunity
        ELSE OpportunityAverages(validated)

GetPositionValidatedOpportunityStats(gs, candidate_player_id, candidate_avg_min, team_id, position_peer_ids, as_of_date, lookback_days) ==
    LET high_usage_games == HighUsageGames(gs, candidate_player_id,
                                candidate_avg_min, team_id, as_of_date,
                                lookback_days)
        validated == ValidatedGames(gs, candidate_player_id, candidate_avg_min,
                                    team_id, position_peer_ids, as_of_date,
                                    lookback_days)
    IN  IF position_peer_ids = {} THEN NoOpportunity
        ELSE IF high_usage_games = {} THEN NoOpportunity
        ELSE IF Cardinality(validated) < MIN_OPP_SAMPLES THEN NoOpportunity
        ELSE OpportunityAverages(validated)

----------------------------------------------------------------------------
(* Scoring helpers: _estimate_min_boost, _calculate_breakout_score *)

\* Variant: the share without its floor of 0.10.
RankShareUnfloored(depth_rank) == Rat(35 - (depth_rank - 1) * 10, 100)

\* max(0.35 - (depth_rank - 1) * 0.10, 0.10), in hundredths
RankShare(depth_rank) ==
    LET s == 35 - (depth_rank - 1) * 10
    IN  Rat(IF s > 10 THEN s ELSE 10, 100)

\* Variant: the opportunity signal without max(0.0, ...).
EstimateUnfloored(injured_avg_min, candidate_avg_min, opp_min, depth_rank, depth_size) ==
    IF opp_min # None
    THEN RSub(opp_min[1], candidate_avg_min)
    ELSE RMul(injured_avg_min, RankShare(depth_rank))

\* Variant: the share of the injured player's minutes, whatever opp_min.
EstimateByShare(injured_avg_min, candidate_avg_min, opp_min, depth_rank, depth_size) ==
    RMul(injured_avg_min, RankShare(depth_rank))

EstimateMinBoost(injured_avg_min, candidate_avg_min, opp_min, depth_rank, depth_size) ==
    IF opp_min # None
    THEN RMax(RInt(0), RSub(opp_min[1], candidate_avg_min))
    ELSE RMul(injured_avg_min, RankShare(depth_rank))

CalculateBreakoutScore(candidate_avg_min, candidate_avg_fpts, injured_avg_min, depth_rank, opp_min, opp_fpts, opp_count) ==
    LET rank_bonus == IF depth_rank \in DOMAIN DEPTH_RANK_BONUSES
                      THEN DEPTH_RANK_BONUSES[depth_rank] ELSE DEFAULT_RANK_BONUS
        opp_boost ==
            IF opp_min # None /\ opp_fpts # None
            THEN LET fpts_delta == RSub(opp_fpts[1], candidate_avg_fpts)
                     min_delta == RSub(opp_min[1], candidate_avg_min)
                     confidence == RMin(Rat(opp_count, 5), RInt(1))
                     raw_boost == RMul(RAdd(RMul(fpts_delta, Rat(3, 2)),
                                            RMul(min_delta, Rat(4, 5))),
                                       confidence)
                 IN  RMin(RMax(raw_boost, RInt(0)), RInt(40))
            ELSE RInt(0)
        production_score == RMul(candidate_avg_fpts, Rat(1, 2))
        headroom == RMax(RSub(RInt(36), candidate_avg_min), RInt(0))
        headroom_bonus == RMul(headroom, Rat(2, 5))
    IN  RAdd(RAdd(RAdd(RInt(rank_bonus), opp_boost), production_score),
             headroom_bonus)

----------------------------------------------------------------------------
(* One pass of the candidate loop of execute: the keyword arguments of     *)
(* BreakoutCandidate.upsert for one injured player x candidate pair.       *)

RoundOpt(v) == IF v = None THEN None ELSE Some(Round1(v[1]))

\* Variant: the members of the depth chart only.
ChartMemberIds(injured, depth_chart) ==
    {depth_chart[i].player_id : i \in 1..Len(depth_chart)}

\* all_position_peer_ids
PositionPeerIds(injured, depth_chart) ==
    {injured.player_id} \cup {depth_chart[i].player_id : i \in 1..Len(depth_chart)}

UpsertArgs(gs, injured, depth_chart, candidate, as_of_date, run_id) ==
    LET opp == GetPositionValidatedOpportunityStats(
                   gs, candidate.player_id, candidate.avg_min, injured.team_id,
                   PositionPeerIds(injured, depth_chart) \ {candidate.player_id},
                   as_of_date, LOOKBACK_DAYS)
        projected_boost == EstimateMinBoost(injured.avg_min, candidate.avg_min,
                               opp.min, candidate.depth_rank, Len(depth_chart))
        score == CalculateBreakoutScore(candidate.avg_min, candidate.avg_fpts,
                     injured.avg_min, candidate.depth_rank,
                     opp.min, opp.fpts, opp.count)
    IN  [injured_player_id     |-> injured.player_id,
         injured_avg_min       |-> Round1(injured.avg_min),
         injury_status         |-> injured.status,
         beneficiary_player_id |-> candidate.player_id,
         team_id               |-> injured.team_id,
         depth_rank            |-> candidate.depth_rank,
         beneficiary_avg_min   |-> Round1(candidate.avg_min),
         beneficiary_avg_fpts  |-> Round1(candidate.avg_fpts),
         projected_min_boost   |-> Round1(projected_boost),
         opp_min_avg           |-> RoundOpt(opp.min),
         opp_fpts_avg          |-> RoundOpt(opp.fpts),
         opp_game_count        |-> opp.count,
         breakout_score        |-> Round1(score),
         as_of_date            |-> as_of_date,
         pipeline_run_id       |-> run_id]

----------------------------------------------------------------------------
(* BreakoutCandidate.upsert on nba.breakout_candidates *)

\* The lookup of get_or_create: beneficiary_player_id and as_of_date.
KeyMatches(row, args) ==
    /\ row.beneficiary_player_id = args.beneficiary_player_id
    /\ row.as_of_date = args.as_of_date

\* query.get(): the id of the matching row, 0 for DoesNotExist.
GetRowId(tbl, args) ==
    IF \E row \in tbl : KeyMatches(row, args)
    THEN (CHOOSE row \in tbl : KeyMatches(row, args)).id
    ELSE 0

\* Variant: the table without its unique index, the INSERT never refused.
NoUniqueIndex(tbl, args) == FALSE

\* The unique index (beneficiary, as_of_date) of Meta.indexes: an INSERT of
\* args raises IntegrityError when a row with that key is stored.
UniqueIndexConflict(tbl, args) ==
    \E row \in tbl : /\ row.beneficiary_player_id = args.beneficiary_player_id
                     /\ row.as_of_date = args.as_of_date

\* Variant: an upsert that leaves a stored row as it is.
KeepStored(row, args) == row

\* setattr(candidate, key, value) for every default, then save().
ApplyDefaults(row, args) ==
    [f \in DOMAIN row |->
        IF f \in DOMAIN args \ {"beneficiary_player_id", "as_of_date"}
        THEN args[f] ELSE row[f]]

\* Variant: the save() of an existing row is lost.
UpdateNothing(tbl, id, args) == tbl

UpdateRow(tbl, id, args) ==
    {IF row.id = id THEN ApplyDefaults(row, args) ELSE row : row \in tbl}

\* Variant: an upsert that first clears the rows of its as_of_date.
PurgeDateAndInsert(tbl, found, args, new_id) ==
    {row \in tbl : row.as_of_date # args.as_of_date}
        \cup {args @@ [id |-> new_id]}

\* Variant: an upsert that inserts without looking the key up.
InsertAlways(tbl, found, args, new_id) == tbl \cup {args @@ [id |-> new_id]}

\* The write half of upsert, given what the lookup found: save() of the found
\* row, or INSERT, or on IntegrityError the second get() and save().
UpsertWriteTable(tbl, found, args, new_id) ==
    IF found # 0 THEN UpdateRow(tbl, found, args)
    ELSE IF UniqueIndexConflict(tbl, args)
         THEN UpdateRow(tbl, GetRowId(tbl, args), args)
         ELSE tbl \cup {args @@ [id |-> new_id]}

----------------------------------------------------------------------------
(* The upserts of one whole execute, in order, as a function of the input  *)
(* tables: the loop nest of execute, lines 134-227.                        *)

RECURSIVE Flatten(_)
Flatten(ss) == IF ss = <<>> THEN <<>> ELSE Head(ss) \o Flatten(Tail(ss))

Plan(inj, st, pos, gs, ord, as_of_date, run_id) ==
    LET injured_starters == GetProminentInjuredPlayers(inj, st, pos, ord, as_of_date)
        latest_stats_date == GetLatestStatsDate(st)
        ChartOf(injured) == BuildPositionDepthChart(st, pos, ord, injured.team_id,
                                injured.player_id, injured.position, latest_stats_date)
        RowsOf(injured) ==
            LET depth_chart == ChartOf(injured)
            IN  [c \in 1..Len(depth_chart) |->
                    UpsertArgs(gs, injured, depth_chart, depth_chart[c],
                               as_of_date, run_id)]
    IN  IF injured_starters = <<>> \/ latest_stats_date = 0 THEN <<>>
        ELSE Flatten([i \in 1..Len(injured_starters) |-> RowsOf(injured_starters[i])])

\* One upsert on the table and its id sequence.
UpsertOnce(db, args) ==
    LET found == GetRowId(db.tbl, args)
    IN  [tbl |-> UpsertWriteTable(db.tbl, found, args, db.next_id),
         next_id |-> IF found = 0 THEN db.next_id + 1 ELSE db.next_id]

\* The table after the upserts of seq, one after the other, from table tbl
\* with the id sequence at next_id.
ApplyUpserts(tbl, next_id, seq) ==
    LET after[k \in 0..Len(seq)] ==
            IF k = 0 THEN [tbl |-> tbl, next_id |-> next_id]
            ELSE UpsertOnce(after[k - 1], seq[k])
    IN  after[Len(seq)].tbl

----------------------------------------------------------------------------
(* Executions of BasePipeline.run for breakout_detection.  Each slot is one *)
(* caller of run_pipeline("breakout_detection"): a request of the           *)
(* single-pipeline endpoint or /all/sync, or a background batch of /all or  *)
(* /post-game.  run() hands _run_sync to a worker thread; the steps of a    *)
(* thread are its database statements.                                      *)

IdleRun ==
    [pc |-> "idle", as_of_date |-> 0, run_id |-> 0, injured |-> <<>>, ii |-> 0,
     latest |-> 0, chart |-> <<>>, ci |-> 0, args |-> <<>>, found |-> 0,
     records |-> 0, error |-> ""]

\* `continue` / end of the candidate loop: the next injured player, or the
\* end of execute.
NextInjured(run) ==
    IF run.ii < Len(run.injured)
    THEN [run EXCEPT !.pc = "build_chart", !.ii = run.ii + 1,
                     !.chart = <<>>, !.ci = 0, !.args = <<>>, !.found = 0]
    ELSE [run EXCEPT !.pc = "mark_success",
                     !.chart = <<>>, !.ci = 0, !.args = <<>>, !.found = 0]

NextCandidate(run) ==
    IF run.ci < Len(run.chart)
    THEN [run EXCEPT !.pc = "upsert_get", !.ci = run.ci + 1,
                     !.args = <<>>, !.found = 0]
    ELSE NextInjured(run)

\* Variant: an exception that only skips the current candidate.
SkipAndContinue(run) ==
    IF run.pc \in {"upsert_get", "upsert_write"} THEN NextCandidate(run)
    ELSE [run EXCEPT !.pc = "failed"]

\* Variant: the exception leaves _run_sync, and the thread with it.
EscapeHarness(run) == [IdleRun EXCEPT !.error = run.error]

\* An exception inside execute: caught by _run_sync, which ends the run.
OnException(run) == [run EXCEPT !.pc = "failed"]

\* _run_sync up to the call of execute: PipelineContext, start_tracking.
\* A new caller takes the first free slot.
Trigger(s, d) ==
    /\ runs[s].pc = "idle"
    /\ \A t \in Slots : t < s => runs[t].pc # "idle"
    /\ Len(pipelineRuns) < MaxRuns
    /\ pipelineRuns' = Append(pipelineRuns,
            [pipeline_name |-> "breakout_detection", status |-> "running",
             started_at |-> clock, completed_at |-> 0, records_processed |-> 0,
             error_message |-> ""])
    /\ runs' = [runs EXCEPT ![s] =
            [IdleRun EXCEPT !.pc = "find_injured", !.as_of_date = d,
                            !.run_id = Len(pipelineRuns) + 1]]
    /\ hist' = Append(hist,
            [as_of_date |-> d, before |-> candidates, next_id |-> nextId,
             after |-> {},
             plan |-> Plan(injuries, seasonStats, position, gameStats,
                           scanOrder, d, Len(pipelineRuns) + 1)])
    /\ clock' = clock + 1
    /\ UNCHANGED <<jobs, dbVars, candidates, nextId, out>>

\* Variant: a run that finds nobody to process is an error.
FindInjuredOrFail(s) ==
    LET run == runs[s]
        injured_starters == GetProminentInjuredPlayers(
            injuries, seasonStats, position, scanOrder, run.as_of_date)
        latest_stats_date == GetLatestStatsDate(seasonStats)
    IN  /\ run.pc = "find_injured"
        /\ runs' = [runs EXCEPT ![s] =
              IF injured_starters = <<>> \/ latest_stats_date = 0
              THEN OnException([run EXCEPT !.error = "ValueError"])
              ELSE [run EXCEPT !.pc = "build_chart", !.injured = injured_starters,
                               !.ii = 1, !.latest = latest_stats_date]]
        /\ UNCHANGED <<jobs, dbVars, candidates, nextId, pipelineRuns, clock, hist, out>>

\* execute, lines 120-130
FindInjured(s) ==
    LET run == runs[s]
        injured_starters == GetProminentInjuredPlayers(
            injuries, seasonStats, position, scanOrder, run.as_of_date)
        latest_stats_date == GetLatestStatsDate(seasonStats)
    IN  /\ run.pc = "find_injured"
        /\ runs' = [runs EXCEPT ![s] =
              IF injured_starters = <<>> \/ latest_stats_date = 0
              THEN [run EXCEPT !.pc = "mark_success"]
              ELSE [run EXCEPT !.pc = "build_chart", !.injured = injured_starters,
                               !.ii = 1, !.latest = latest_stats_date]]
        /\ UNCHANGED <<jobs, dbVars, candidates, nextId, pipelineRuns, clock, hist, out>>

\* Variant: an empty depth chart ends the loop over the injured players.
BuildChartOrStop(s) ==
    LET run == runs[s]
        injured == run.injured[run.ii]
        depth_chart == BuildPositionDepthChart(
            seasonStats, position, scanOrder, injured.team_id,
            injured.player_id, injured.position, run.latest)
    IN  /\ run.pc = "build_chart"
        /\ runs' = [runs EXCEPT ![s] =
              IF depth_chart = <<>> THEN [run EXCEPT !.pc = "mark_success"]
              ELSE [run EXCEPT !.pc = "upsert_get", !.chart = depth_chart, !.ci = 1]]
        /\ UNCHANGED <<jobs, dbVars, candidates, nextId, pipelineRuns, clock, hist, out>>

\* execute, lines 134-174
BuildChart(s) ==
    LET run == runs[s]
        injured == run.injured[run.ii]
        depth_chart == BuildPositionDepthChart(
            seasonStats, position, scanOrder, injured.team_id,
            injured.player_id, injured.position, run.latest)
    IN  /\ run.pc = "build_chart"
        /\ runs' = [runs EXCEPT ![s] =
              IF depth_chart = <<>> THEN NextInjured(run)
              ELSE [run EXCEPT !.pc = "upsert_get", !.chart = depth_chart, !.ci = 1]]
        /\ UNCHANGED <<jobs, dbVars, candidates, nextId, pipelineRuns, clock, hist, out>>

\* execute, lines 176-225, up to the lookup of get_or_create
UpsertGet(s) ==
    LET run == runs[s]
        args == UpsertArgs(gameStats, run.injured[run.ii], run.chart,
                           run.chart[run.ci], run.as_of_date, run.run_id)
    IN  /\ run.pc = "upsert_get"
        /\ runs' = [runs EXCEPT ![s] =
              [run EXCEPT !.pc = "upsert_write", !.args = args,
                          !.found = GetRowId(candidates, args)]]
        /\ UNCHANGED <<jobs, dbVars, candidates, nextId, pipelineRuns, clock, hist, out>>

\* the write of upsert, then ctx.increment_records() and the loop step.
\* get_or_create re-raises the IntegrityError of its INSERT when its second
\* get() finds no row either.
UpsertWrite(s) ==
    LET run == runs[s]
        reraised == /\ run.found = 0
                    /\ UniqueIndexConflict(candidates, run.args)
                    /\ GetRowId(candidates, run.args) = 0
    IN  /\ run.pc = "upsert_write"
        /\ candidates' = UpsertWriteTable(candidates, run.found, run.args, nextId)
        /\ nextId' = IF run.found = 0 THEN nextId + 1 ELSE nextId
        /\ runs' = [runs EXCEPT ![s] =
              IF reraised THEN OnException([run EXCEPT !.error = "IntegrityError"])
              ELSE NextCandidate([run EXCEPT !.records = run.records + 1])]
        /\ UNCHANGED <<jobs, dbVars, pipelineRuns, clock, hist, out>>

\* A read or a write of execute raises: the database fails the statement.
Raise(s) ==
    /\ runs[s].pc \in {"find_injured", "build_chart", "upsert_get", "upsert_write"}
    /\ runs' = [runs EXCEPT ![s] =
          OnException([runs[s] EXCEPT !.error = "OperationalError"])]
    /\ UNCHANGED <<jobs, dbVars, candidates, nextId, pipelineRuns, clock, hist, out>>

\* Variant: the harness records a run that raised as a success.
MarkFailedAsSuccess(s) ==
    LET run == runs[s]
    IN  /\ run.pc = "failed"
        /\ pipelineRuns' = [pipelineRuns EXCEPT ![run.run_id] =
              [@ EXCEPT !.status = "success", !.completed_at = clock,
                        !.records_processed = run.records]]
        /\ hist' = [hist EXCEPT ![run.run_id].after = candidates]
        /\ clock' = clock + 1
        /\ runs' = [runs EXCEPT ![s] = IdleRun]
        /\ out' = [fn |-> "run", run_id |-> run.run_id, status |-> "success",
                   records_processed |-> run.records]
        /\ UNCHANGED <<jobs, dbVars, candidates, nextId>>

\* ctx.mark_failed(e); run() returns the error result
MarkFailed(s) ==
    LET run == runs[s]
    IN  /\ run.pc = "failed"
        /\ pipelineRuns' = [pipelineRuns EXCEPT ![run.run_id] =
              [@ EXCEPT !.status = "failed", !.completed_at = clock,
                        !.error_message = run.error]]
        /\ hist' = [hist EXCEPT ![run.run_id].after = candidates]
        /\ clock' = clock + 1
        /\ runs' = [runs EXCEPT ![s] = IdleRun]
        /\ out' = [fn |-> "run", run_id |-> run.run_id, status |-> "error",
                   error |-> run.error]
        /\ UNCHANGED <<jobs, dbVars, candidates, nextId>>

\* ctx.mark_success(); run() returns the result
MarkSuccess(s) ==
    LET run == runs[s]
    IN  /\ run.pc = "mark_success"
        /\ pipelineRuns' = [pipelineRuns EXCEPT ![run.run_id] =
              [@ EXCEPT !.status = "success", !.completed_at = clock,
                        !.records_processed = run.records]]
        /\ hist' = [hist EXCEPT ![run.run_id].after = candidates]
        /\ clock' = clock + 1
        /\ runs' = [runs EXCEPT ![s] = IdleRun]
        /\ out' = [fn |-> "run", run_id |-> run.run_id, status |-> "success",
                   records_processed |-> run.records]
        /\ UNCHANGED <<jobs, dbVars, candidates, nextId>>

----------------------------------------------------------------------------
(* Input databases of the orchestrator specification: one team whose two   *)
(* starters (players 1 and 2) are reported injured and whose other players *)
(* are the rotation.                                                       *)

StarterStats(p, d) ==
    [player |-> p, team |-> "BOS", as_of_date |-> d,
     gp |-> 27 - 2 * p, min |-> 30 * (27 - 2 * p), fpts |-> 40 * (27 - 2 * p)]

\* A bench player has played 15 games by the day before the last.
BenchStats(p, d) ==
    LET gp == 16 + d - MaxDate
    IN  [player |-> p, team |-> "BOS", as_of_date |-> d,
         gp |-> gp, min |-> gp * (34 - 4 * p), fpts |-> gp * (24 - 2 * p)]

Starters == {1, 2}
Bench == 3..NRoster

\* The snapshot of the day before the last: every player has a row.  With
\* late, the players who played on the last day (the bench) have a newer row.
StatsScenario(late) ==
    {StarterStats(p, MaxDate - 1) : p \in Starters}
        \cup {BenchStats(p, MaxDate - 1) : p \in Bench}
        \cup (IF late THEN {BenchStats(p, MaxDate) : p \in Bench} ELSE {})

\* Player 1 is Out from day 1; player 2 gets a report on day 2 (or none).
InjuryScenario(status2) ==
    {[player |-> 1, report_date |-> 1, status |-> "Out"]}
        \cup (IF status2 = "" THEN {}
              ELSE {[player |-> 2, report_date |-> 2, status |-> status2]})

\* Box scores before the last day: player 3 plays starter minutes, player 2
\* plays on day 1 only, the rest of the bench plays every day, player 1 never.
GameScenario ==
    {[player |-> 3, team |-> "BOS", game_date |-> d, min |-> 28, fpts |-> 25] :
        d \in 1..(MaxDate - 1)}
        \cup {[player |-> 2, team |-> "BOS", game_date |-> 1, min |-> 30, fpts |-> 35]}
        \cup {[player |-> p, team |-> "BOS", game_date |-> d, min |-> 18, fpts |-> 10] :
                p \in Bench \ {3}, d \in 1..(MaxDate - 1)}

\* Grouped: centers and power forwards, every player in the position group
\* of every other.  Split: the starters in disjoint groups (C and SG), the
\* bench with no position or SG.
PositionScenario(split) ==
    [p \in Players |->
        IF ~split THEN (IF p % 2 = 1 THEN "C" ELSE "pf")
        ELSE IF p = 1 THEN "C"
        ELSE IF p % 2 = 1 THEN "" ELSE "SG"]

Ascending == [i \in 1..NPlayers |-> i]
Descending == [i \in 1..NPlayers |-> NPlayers + 1 - i]

NoCall == [fn |-> "none"]

Fresh ==
    /\ candidates = {}
    /\ nextId = 1
    /\ pipelineRuns = <<>>
    /\ runs = [s \in Slots |-> IdleRun]
    /\ clock = 1
    /\ hist = <<>>
    /\ out = NoCall
    /\ jobs = <<>>

\* Overlapping callers: both starters Out, in disjoint position groups.
Init ==
    /\ injuries = InjuryScenario("Out")
    /\ seasonStats = StatsScenario(FALSE)
    /\ position = PositionScenario(TRUE)
    /\ gameStats = GameScenario
    /\ scanOrder = Ascending
    /\ Fresh

\* Player 1 is back: Out on day 1, Available from day 2.
RecoveredScenario ==
    {[player |-> 1, report_date |-> 1, status |-> "Out"],
     [player |-> 1, report_date |-> 2, status |-> "Available"]}

\* Only a bench player is Out.
BenchInjuryScenario == {[player |-> 3, report_date |-> 1, status |-> "Out"]}

\* Player 1 is the only center: everybody else is a shooting guard.
LoneCenterScenario == [p \in Players |-> IF p = 1 THEN "C" ELSE "SG"]

\* One caller at a time, over every scenario.
InitSeq ==
    /\ \/ \E status2 \in {"Out", "Doubtful", "Questionable", ""} :
             injuries = InjuryScenario(status2)
       \/ injuries = RecoveredScenario
       \/ injuries = BenchInjuryScenario
    /\ \/ \E late \in BOOLEAN : seasonStats = StatsScenario(late)
       \/ seasonStats = {}
    /\ \/ \E split \in BOOLEAN : position = PositionScenario(split)
       \/ position = LoneCenterScenario
    /\ gameStats = GameScenario
    /\ scanOrder \in {Ascending, Descending}
    /\ Fresh

Step(s) ==
    \/ \E d \in AsOfDates : Trigger(s, d)
    \/ FindInjured(s)
    \/ BuildChart(s)
    \/ UpsertGet(s)
    \/ UpsertWrite(s)
    \/ Raise(s)
    \/ MarkFailed(s)
    \/ MarkSuccess(s)

Next == \E s \in Slots : Step(s)

NextSeq == Step(1)

Spec == Init /\ [][Next]_vars

SpecSeq == InitSeq /\ [][NextSeq]_vars

----------------------------------------------------------------------------
(* Histories of the runs *)

\* The upserts run r computes over the input tables.
PlanOf(r) == hist[r].plan

Ended(r) == pipelineRuns[r].status # "running"
Succeeded(r) == pipelineRuns[r].status = "success"
RunsSoFar == 1..Len(pipelineRuns)

----------------------------------------------------------------------------
(* C1 - uniqueness of (beneficiary_player_id, as_of_date) *)

\* C1: in every reachable state, whatever runs came before or overlap, the
\* output table holds at most one row per (beneficiary_player_id, as_of_date).
C1_UniquePerBeneficiaryDate ==
    \A r1 \in candidates : \A r2 \in candidates :
        (/\ r1.beneficiary_player_id = r2.beneficiary_player_id
         /\ r1.as_of_date = r2.as_of_date) => r1 = r2

\* Two runs of the same date have ended, each upserted the one teammate of
\* both injured starters twice, and one row is stored.
C1_Witness ==
    /\ Len(pipelineRuns) = 2
    /\ \A r \in RunsSoFar : Succeeded(r) /\ pipelineRuns[r].records_processed >= 2
    /\ hist[1].as_of_date = hist[2].as_of_date
    /\ Cardinality({row \in candidates : row.as_of_date = hist[1].as_of_date}) = 1

----------------------------------------------------------------------------
(* C5 - one execution per pipeline name *)

\* C5: at no time are two executions of breakout_detection in progress.
C5_AtMostOneExecution ==
    Cardinality({s \in Slots : runs[s].pc # "idle"}) <= 1

----------------------------------------------------------------------------
(* C2 - re-running a date *)

\* r2 re-ran r1: both succeeded for the same as_of_date over the same input
\* tables, and r2 started from the output table r1 left.
Rerun(r1, r2) ==
    /\ r1 < r2
    /\ Succeeded(r1) /\ Succeeded(r2)
    /\ pipelineRuns[r1].completed_at <= pipelineRuns[r2].started_at
    /\ hist[r1].as_of_date = hist[r2].as_of_date
    /\ hist[r2].before = hist[r1].after

WithoutRunId(tbl) == {[row EXCEPT !.pipeline_run_id = 0] : row \in tbl}

----------------------------------------------------------------------------
(* C3 - atomicity of a run *)

\* C3 as stated: when a run has ended, either every row it computes is
\* stored or the output table is as it was when the run started.
C3_AllOrNothing ==
    \A r \in RunsSoFar :
        Ended(r) =>
            \/ hist[r].after = ApplyUpserts(hist[r].before, hist[r].next_id, PlanOf(r))
            \/ hist[r].after = hist[r].before

\* C3 amended: a successful run has stored every row it computes; a failed
\* run leaves stored the upserts it completed before the exception, a prefix
\* of its upsert sequence (no rollback).
C3_PrefixStored ==
    \A r \in RunsSoFar : \A plan \in {PlanOf(r)} :
        LET After(k) == ApplyUpserts(hist[r].before, hist[r].next_id, SubSeq(plan, 1, k))
        IN  /\ Succeeded(r) =>
                hist[r].after = After(Len(plan))
                /\ pipelineRuns[r].records_processed = Len(plan)
            /\ pipelineRuns[r].status = "failed" =>
                \E k \in 0..Len(plan) : hist[r].after = After(k)

\* A run failed after its first upsert and before its last: part of its
\* rows is stored.
C3_Witness ==
    \E r \in RunsSoFar :
        /\ pipelineRuns[r].status = "failed"
        /\ hist[r].after # hist[r].before
        /\ hist[r].after # ApplyUpserts(hist[r].before, hist[r].next_id, PlanOf(r))

----------------------------------------------------------------------------
(* C4 - what a successful run stores *)

StoredFor(tbl, beneficiary, as_of_date) ==
    {row \in tbl : row.beneficiary_player_id = beneficiary
                   /\ row.as_of_date = as_of_date}

\* C4 as stated: after a successful run there is a stored row for every
\* (injured starter, depth-chart candidate) pair of the run.
C4_RowPerPair ==
    \A r \in RunsSoFar :
        Succeeded(r) =>
            \A i \in 1..Len(PlanOf(r)) :
                \E row \in hist[r].after :
                    /\ row.as_of_date = hist[r].as_of_date
                    /\ row.injured_player_id = PlanOf(r)[i].injured_player_id
                    /\ row.beneficiary_player_id = PlanOf(r)[i].beneficiary_player_id

\* C4 amended: after a successful run there is exactly one stored row per
\* depth-chart candidate and as_of_date; it holds the values computed for
\* the injured starter processed last among those whose depth chart lists
\* the candidate.
C4_RowPerBeneficiaryLastWins ==
    \A r \in RunsSoFar :
        Succeeded(r) =>
            LET plan == PlanOf(r)
            IN  \A i \in 1..Len(plan) :
                    LET b == plan[i].beneficiary_player_id
                        last == CHOOSE j \in 1..Len(plan) :
                                  /\ plan[j].beneficiary_player_id = b
                                  /\ \A k \in (j + 1)..Len(plan) :
                                         plan[k].beneficiary_player_id # b
                        stored == StoredFor(hist[r].after, b, hist[r].as_of_date)
                    IN  /\ Cardinality(stored) = 1
                        /\ \A row \in stored :
                               \A f \in DOMAIN plan[last] : row[f] = plan[last][f]

\* A successful run upserted one teammate for two injured starters.
C4_Witness ==
    \E r \in RunsSoFar :
        /\ Succeeded(r)
        /\ \E i \in 1..Len(PlanOf(r)) : \E j \in 1..Len(PlanOf(r)) :
               /\ i < j
               /\ PlanOf(r)[i].beneficiary_player_id = PlanOf(r)[j].beneficiary_player_id
               /\ PlanOf(r)[i].injured_player_id # PlanOf(r)[j].injured_player_id

----------------------------------------------------------------------------
(* C6 - health of the beneficiaries *)

\* C6: no stored beneficiary has Out or Doubtful as his latest injury status
\* on or before the row's as_of_date.
C6_BeneficiariesHealthy ==
    \A row \in candidates :
        \A record \in LatestInjuries(injuries, row.as_of_date) :
            record.player # row.beneficiary_player_id

----------------------------------------------------------------------------
(* C8 - reads as of as_of_date *)

\* The input tables without the records dated after as_of_date: they agree
\* with the stored tables on every record dated on or before as_of_date.
InjuriesAsOf(as_of_date) == {r \in injuries : r.report_date <= as_of_date}
SeasonStatsAsOf(as_of_date) == {r \in seasonStats : r.as_of_date <= as_of_date}
GameStatsAsOf(as_of_date) == {r \in gameStats : r.game_date <= as_of_date}

\* C8: records dated after as_of_date do not affect the output: a successful
\* run leaves the table it would leave over the input tables cut at
\* as_of_date.
C8_PointInTime ==
    \A r \in RunsSoFar :
        Succeeded(r) =>
            LET d == hist[r].as_of_date
            IN  hist[r].after =
                    ApplyUpserts(hist[r].before, hist[r].next_id,
                        Plan(InjuriesAsOf(d), SeasonStatsAsOf(d), position,
                             GameStatsAsOf(d), scanOrder, d, r))

----------------------------------------------------------------------------
(* The helpers called on their own, over wider input tables.               *)

CandidatePositions == {"", "C", "pf", "SG", "G-F"}

\* Season-stats rows for the depth chart.  "ties": players 2 and 3 average
\* the same minutes, the others more.  "edges": player 2 on another team,
\* player 3 exactly at the minutes threshold, player 4 just below it,
\* player 5 short of games.  Player 2 has an older row as well.
RotationRow(p, team, gp, avg_min) ==
    [player |-> p, team |-> team, as_of_date |-> MaxDate,
     gp |-> gp, min |-> gp * avg_min, fpts |-> gp * 20]

ChartStats(variant) ==
    {StarterStats(1, MaxDate)}
        \cup {[player |-> 2, team |-> "BOS", as_of_date |-> MaxDate - 1,
               gp |-> 14, min |-> 280, fpts |-> 280]}
        \cup {IF variant = "ties" \/ p > 5
              THEN RotationRow(p, "BOS", 10 + 5 * (p % 2), IF p <= 3 THEN 22 ELSE 13 + 3 * p)
              ELSE IF p = 2 THEN RotationRow(p, "LAL", 15, 22)
              ELSE IF p = 3 THEN RotationRow(p, "BOS", 12, 12)
              ELSE IF p = 4 THEN [RotationRow(p, "BOS", 10, 12) EXCEPT !.min = 119]
              ELSE RotationRow(p, "BOS", 9, 30) : p \in Players \ {1}}

\* (gp, min) of a starter at and around the thresholds of 20 games and 28
\* minutes a game.
ProminentEdges == {<<20, 560>>, <<19, 570>>, <<20, 559>>, <<25, 750>>}

ReportStatuses == {"", "Out", "Doubtful", "Questionable"}

\* Player 1 has a report on day 1 and on the last day (or none), player 2 is
\* Out from day 1.
InjuryHistory(h) ==
    {[player |-> 1, report_date |-> d, status |-> h[d]] :
        d \in {d \in {1, MaxDate} : h[d] # ""}}
        \cup {[player |-> 2, report_date |-> 1, status |-> "Out"]}

\* Player 1's row is of day row_date; player 2 and the bench have rows of
\* the last day.
ProminentStats(row_date, edge) ==
    {[player |-> 1, team |-> "BOS", as_of_date |-> row_date,
      gp |-> edge[1], min |-> edge[2], fpts |-> 40 * edge[1]]}
        \cup {StarterStats(2, MaxDate)}
        \cup {BenchStats(p, MaxDate) : p \in Bench}

InitUnit ==
    /\ \/ /\ injuries = InjuryScenario("")
          /\ \E variant \in {"ties", "edges"} : seasonStats = ChartStats(variant)
          /\ \E f \in [Players \ {1} -> CandidatePositions] :
                position = [p \in Players |-> IF p = 1 THEN "C" ELSE f[p]]
       \/ /\ \E h \in [{1, MaxDate} -> ReportStatuses] : injuries = InjuryHistory(h)
          /\ \E row_date \in {MaxDate - 1, MaxDate} : \E edge \in ProminentEdges :
                seasonStats = ProminentStats(row_date, edge)
          /\ position = PositionScenario(FALSE)
    /\ gameStats = GameScenario
    /\ scanOrder \in {Ascending, Descending}
    /\ Fresh

CallGetProminentInjuredPlayers(as_of_date) ==
    /\ out = NoCall
    /\ out' = [fn |-> "_get_prominent_injured_players",
               as_of_date |-> as_of_date,
               result |-> GetProminentInjuredPlayers(injuries, seasonStats,
                              position, scanOrder, as_of_date)]
    /\ UNCHANGED <<jobs, dbVars, candidates, nextId, pipelineRuns, runs, clock, hist>>

CallBuildPositionDepthChart(team_id, injured_player_id, injured_position, latest_stats_date) ==
    /\ out = NoCall
    /\ out' = [fn |-> "_build_position_depth_chart",
               team_id |-> team_id,
               injured_player_id |-> injured_player_id,
               injured_position |-> injured_position,
               latest_stats_date |-> latest_stats_date,
               result |-> BuildPositionDepthChart(seasonStats, position, scanOrder,
                              team_id, injured_player_id, injured_position,
                              latest_stats_date)]
    /\ UNCHANGED <<jobs, dbVars, candidates, nextId, pipelineRuns, runs, clock, hist>>

NextUnit ==
    \/ \E as_of_date \in Dates : CallGetProminentInjuredPlayers(as_of_date)
    \/ \E injured_player_id \in Players : \E injured_position \in PositionStrings :
       \E latest_stats_date \in {MaxDate - 1, MaxDate} :
          CallBuildPositionDepthChart("BOS", injured_player_id, injured_position,
                                      latest_stats_date)

SpecUnit == InitUnit /\ [][NextUnit]_vars

PlayerIds(seq) == {seq[i].player_id : i \in DOMAIN seq}

----------------------------------------------------------------------------
(* C7 - the prominent injured players *)

\* C7: _get_prominent_injured_players returns exactly the players whose
\* latest injury record on or before as_of_date is Out or Doubtful and whose
\* own most recent season-stats row has gp >= 20 and min / gp >= 28.
C7_ProminentInjuredExactly ==
    out.fn = "_get_prominent_injured_players" =>
        PlayerIds(out.result) =
            {p \in Players :
                /\ \E record \in LatestInjuries(injuries, out.as_of_date) :
                       record.player = p
                /\ \E row \in seasonStats :
                       /\ row.player = p
                       /\ \A other \in seasonStats :
                              other.player = p => other.as_of_date <= row.as_of_date
                       /\ row.gp >= PROMINENT_MIN_GP
                       /\ row.min >= PROMINENT_MIN_THRESHOLD * row.gp}

----------------------------------------------------------------------------
(* C9 - ranks of the depth chart *)

----------------------------------------------------------------------------
(* C10 - injured position without an adjacency set *)

\* C10: when the injured player's position has no entry in the adjacency
\* table (empty, or a string that is not a key), the chart lists every
\* rotation candidate of the team, whatever the candidate's position.
C10_UnknownPositionIncludesAll ==
    (/\ out.fn = "_build_position_depth_chart"
     /\ Upper(out.injured_position) \notin DOMAIN POSITION_ADJACENCY) =>
        PlayerIds(out.result) =
            {row.player : row \in
                {RotationCandidates(seasonStats, scanOrder, out.team_id,
                     out.injured_player_id, out.latest_stats_date)[i] :
                 i \in DOMAIN RotationCandidates(seasonStats, scanOrder, out.team_id,
                     out.injured_player_id, out.latest_stats_date)}}

----------------------------------------------------------------------------
(* C11 - the position filter of the depth chart *)

\* The rotation candidates of the call recorded in out, as a set of rows.
RotationRowsOfCall ==
    LET rotation == RotationCandidates(seasonStats, scanOrder, out.team_id,
                        out.injured_player_id, out.latest_stats_date)
    IN  {rotation[i] : i \in DOMAIN rotation}

----------------------------------------------------------------------------
(* C12 - who can be in a depth chart *)

----------------------------------------------------------------------------
(* The opportunity validator called on its own, over a family of game logs. *)

\* A box score of player 3 on day d.  "high": 25 minutes for BOS.  "other":
\* 20 minutes for BOS on an odd day, 25 minutes for LAL on an even day.
CandidateGame(d, kind) ==
    IF kind = "high"
    THEN [player |-> 3, team |-> "BOS", game_date |-> d, min |-> 25, fpts |-> 30 + d]
    ELSE IF d % 2 = 1
    THEN [player |-> 3, team |-> "BOS", game_date |-> d, min |-> 20, fpts |-> 12]
    ELSE [player |-> 3, team |-> "LAL", game_date |-> d, min |-> 25, fpts |-> 50]

\* Player 3 plays as kinds says, player 1 plays on peer_dates, player 2 has
\* one box score for another team on day 1, player 4 never plays.
GameLog(kinds, peer_dates) ==
    {CandidateGame(d, kinds[d]) : d \in {d \in Dates : kinds[d] # "none"}}
        \cup {[player |-> 1, team |-> "BOS", game_date |-> d, min |-> 30, fpts |-> 40] :
                d \in peer_dates}
        \cup {[player |-> 2, team |-> "LAL", game_date |-> 1, min |-> 10, fpts |-> 5]}

InitValidator ==
    /\ injuries = InjuryScenario("")
    /\ seasonStats = StatsScenario(FALSE)
    /\ position = PositionScenario(FALSE)
    /\ \E kinds \in [Dates -> {"none", "high", "other"}] :
       \E peer_dates \in SUBSET Dates :
          gameStats = GameLog(kinds, peer_dates)
    /\ scanOrder = Ascending
    /\ Fresh

\* Season averages of the candidate: 0, 16 (threshold at the floor, 20),
\* 20 (threshold 25), 22 (threshold 27.5).
CandidateAverages == {RInt(0), RInt(16), RInt(20), RInt(22)}

PeerSets == {{}, {1}, {1, 2}, {1, 4}}

LookbackInputs == {1, 2, LOOKBACK_DAYS}

CallGetPositionValidatedOpportunityStats(candidate_avg_min, position_peer_ids, as_of_date, lookback_days) ==
    /\ out = NoCall
    /\ out' = [fn |-> "_get_position_validated_opportunity_stats",
               candidate_player_id |-> 3,
               candidate_avg_min |-> candidate_avg_min,
               team_id |-> "BOS",
               position_peer_ids |-> position_peer_ids,
               as_of_date |-> as_of_date,
               lookback_days |-> lookback_days,
               result |-> GetPositionValidatedOpportunityStats(gameStats, 3,
                              candidate_avg_min, "BOS", position_peer_ids,
                              as_of_date, lookback_days)]
    /\ UNCHANGED <<jobs, dbVars, candidates, nextId, pipelineRuns, runs, clock, hist>>

NextValidator ==
    \E candidate_avg_min \in CandidateAverages : \E position_peer_ids \in PeerSets :
    \E as_of_date \in 2..(MaxDate + 1) : \E lookback_days \in LookbackInputs :
        CallGetPositionValidatedOpportunityStats(candidate_avg_min,
            position_peer_ids, as_of_date, lookback_days)

SpecValidator == InitValidator /\ [][NextValidator]_vars

\* The opportunity games of the call recorded in out, from the game log:
\* the candidate's records for the team dated in
\* [as_of_date - lookback_days, as_of_date) with
\* min >= max(candidate_avg_min * 1.25, 20), on a date where some peer has
\* no record.
OpportunityGamesOfCall ==
    {g \in gameStats :
        /\ g.player = out.candidate_player_id
        /\ g.team = out.team_id
        /\ out.as_of_date - out.lookback_days <= g.game_date
        /\ g.game_date < out.as_of_date
        /\ 4 * g.min * out.candidate_avg_min.d >= 5 * out.candidate_avg_min.n
        /\ g.min >= HIGH_USAGE_MIN_FLOOR
        /\ \E p \in out.position_peer_ids :
               \A x \in gameStats : ~(x.player = p /\ x.game_date = g.game_date)}

ValidatorCalled == out.fn = "_get_position_validated_opportunity_stats"

----------------------------------------------------------------------------
(* C13 - the sample threshold of the validator *)

\* C13: the validator returns (None, None, 0) when fewer than 2 opportunity
\* games exist; when it returns an average of minutes it returns an average
\* of fantasy points too, and a count that is the number of opportunity
\* games and is at least 2.
C13_NoAverageBelowTwoSamples ==
    ValidatorCalled =>
        /\ Cardinality(OpportunityGamesOfCall) < MIN_OPP_SAMPLES =>
               /\ out.result.min = None /\ out.result.fpts = None
               /\ out.result.count = 0
        /\ out.result.min # None =>
               /\ out.result.fpts # None
               /\ out.result.count >= MIN_OPP_SAMPLES
               /\ out.result.count = Cardinality(OpportunityGamesOfCall)
        /\ out.result.min = None => out.result.count = 0

\* A call over exactly one opportunity game, answered (None, None, 0).
C13_Witness ==
    /\ ValidatorCalled
    /\ Cardinality(OpportunityGamesOfCall) = 1
    /\ out.result.count = 0

----------------------------------------------------------------------------
(* C14 - which games are opportunity games *)

\* C14: with 2 or more opportunity games the count is their number and the
\* averages are the means of min and fpts over exactly these games;
\* otherwise the answer is (None, None, 0).
C14_MeansOverOpportunityGames ==
    ValidatorCalled =>
        LET games == OpportunityGamesOfCall
            n == Cardinality(games)
        IN  IF n >= MIN_OPP_SAMPLES
            THEN /\ out.result.count = n
                 /\ out.result.min = Some(Rat(SumOver(games, "min"), n))
                 /\ out.result.fpts = Some(Rat(SumOver(games, "fpts"), n))
            ELSE /\ out.result.count = 0
                 /\ out.result.min = None /\ out.result.fpts = None

\* A call answered with averages: one opportunity game is on the first day
\* of the window, one is exactly at the minutes threshold, and a record of
\* the candidate for the team on as_of_date itself, above the threshold, is
\* not counted.
C14_Witness ==
    /\ ValidatorCalled
    /\ out.result.count >= MIN_OPP_SAMPLES
    /\ \E g \in gameStats :
           /\ g.player = out.candidate_player_id /\ g.team = out.team_id
           /\ g.game_date = out.as_of_date
           /\ 4 * g.min * out.candidate_avg_min.d > 5 * out.candidate_avg_min.n
    /\ \E g \in OpportunityGamesOfCall :
           g.game_date = out.as_of_date - out.lookback_days
    /\ \E g \in OpportunityGamesOfCall :
           4 * g.min * out.candidate_avg_min.d = 5 * out.candidate_avg_min.n

----------------------------------------------------------------------------
(* C15 - a candidate with a season average of 0 minutes *)

\* The candidate's records for the team in the window with 20 minutes or
\* more, on a date where some peer has no record.
FloorGamesOfCall ==
    {g \in gameStats :
        /\ g.player = out.candidate_player_id
        /\ g.team = out.team_id
        /\ out.as_of_date - out.lookback_days <= g.game_date
        /\ g.game_date < out.as_of_date
        /\ g.min >= HIGH_USAGE_MIN_FLOOR
        /\ \E p \in out.position_peer_ids :
               \A x \in gameStats : ~(x.player = p /\ x.game_date = g.game_date)}

\* C15 as stated: for a candidate with avg_min 0 the validator raises no
\* division error and returns (None, None, 0), whatever the game log holds.
C15_ZeroAverageReturnsNone ==
    (ValidatorCalled /\ out.candidate_avg_min = RInt(0)) =>
        /\ ~out.result.raised
        /\ out.result.min = None /\ out.result.fpts = None
        /\ out.result.count = 0

\* C15 amended: for a candidate with avg_min 0 the validator raises no
\* division error; its threshold is the floor of 20 minutes, and it returns
\* (None, None, 0) exactly when fewer than 2 records of the candidate reach
\* 20 minutes on a date with a peer absent; with 2 or more it returns their
\* count and means.
C15_ZeroAverageUsesFloor ==
    (ValidatorCalled /\ out.candidate_avg_min = RInt(0)) =>
        /\ ~out.result.raised
        /\ Cardinality(FloorGamesOfCall) < MIN_OPP_SAMPLES =>
               /\ out.result.min = None /\ out.result.fpts = None
               /\ out.result.count = 0
        /\ Cardinality(FloorGamesOfCall) >= MIN_OPP_SAMPLES =>
               /\ out.result.min # None /\ out.result.fpts # None
               /\ out.result.count = Cardinality(FloorGamesOfCall)

\* A call with avg_min 0 over a game log with two records of 20 minutes or
\* more on dates with a peer absent.
C15_Witness ==
    /\ ValidatorCalled
    /\ out.candidate_avg_min = RInt(0)
    /\ Cardinality(FloorGamesOfCall) >= MIN_OPP_SAMPLES
    /\ out.result.count >= MIN_OPP_SAMPLES

----------------------------------------------------------------------------
(* The scoring helpers called on their own. *)

InjuredAverages == {RInt(0), RInt(28), Rat(61, 2)}

MinuteAverages == {RInt(0), RInt(12), RInt(22), RInt(36), RInt(40)}

\* Season fantasy points are a sum of signed game scores.
FptsAverages == {RInt(0 - 10), RInt(0 - 2), RInt(0), RInt(20)}

OppMinInputs == {None, Some(RInt(10)), Some(RInt(25)), Some(Rat(55, 2))}

\* (opp_min, opp_fpts, opp_count) as the validator returns them
OppInputs ==
    {[min |-> None, fpts |-> None, count |-> 0],
     [min |-> Some(RInt(25)), fpts |-> Some(RInt(30)), count |-> 2],
     [min |-> Some(RInt(25)), fpts |-> Some(RInt(30)), count |-> 6],
     [min |-> Some(RInt(10)), fpts |-> Some(RInt(5)), count |-> 3],
     [min |-> Some(RInt(50)), fpts |-> Some(RInt(80)), count |-> 5]}

CallEstimateMinBoost(injured_avg_min, candidate_avg_min, opp_min, depth_rank, depth_size) ==
    /\ out = NoCall
    /\ out' = [fn |-> "_estimate_min_boost",
               injured_avg_min |-> injured_avg_min,
               candidate_avg_min |-> candidate_avg_min,
               opp_min |-> opp_min,
               depth_rank |-> depth_rank,
               depth_size |-> depth_size,
               result |-> EstimateMinBoost(injured_avg_min, candidate_avg_min,
                              opp_min, depth_rank, depth_size)]
    /\ UNCHANGED <<jobs, dbVars, candidates, nextId, pipelineRuns, runs, clock, hist>>

CallCalculateBreakoutScore(candidate_avg_min, candidate_avg_fpts, injured_avg_min, depth_rank, opp) ==
    /\ out = NoCall
    /\ out' = [fn |-> "_calculate_breakout_score",
               candidate_avg_min |-> candidate_avg_min,
               candidate_avg_fpts |-> candidate_avg_fpts,
               injured_avg_min |-> injured_avg_min,
               depth_rank |-> depth_rank,
               opp |-> opp,
               result |-> CalculateBreakoutScore(candidate_avg_min,
                              candidate_avg_fpts, injured_avg_min, depth_rank,
                              opp.min, opp.fpts, opp.count)]
    /\ UNCHANGED <<jobs, dbVars, candidates, nextId, pipelineRuns, runs, clock, hist>>

NextScore ==
    \/ \E injured_avg_min \in InjuredAverages : \E candidate_avg_min \in MinuteAverages :
       \E opp_min \in OppMinInputs : \E depth_rank \in 1..MaxRank :
       \E depth_size \in {depth_rank, MaxRank} :
          CallEstimateMinBoost(injured_avg_min, candidate_avg_min, opp_min,
                               depth_rank, depth_size)
    \/ \E candidate_avg_min \in MinuteAverages : \E candidate_avg_fpts \in FptsAverages :
       \E depth_rank \in 1..MaxRank : \E opp \in OppInputs :
          CallCalculateBreakoutScore(candidate_avg_min, candidate_avg_fpts,
                                     RInt(30), depth_rank, opp)

SpecScore == Init /\ [][NextScore]_vars

----------------------------------------------------------------------------
(* C16 - the projected boost is never negative *)

\* C16: _estimate_min_boost returns 0 or more for injured_avg_min >= 0 and
\* depth_rank >= 1, also when the opportunity average is below the
\* candidate's season average.
C16_BoostNonNegative ==
    out.fn = "_estimate_min_boost" => RLe(RInt(0), out.result)

\* A call with an opportunity average below the season average, answered 0.
C16_Witness ==
    /\ out.fn = "_estimate_min_boost"
    /\ out.opp_min # None
    /\ RLt(out.opp_min[1], out.candidate_avg_min)
    /\ out.result = RInt(0)

----------------------------------------------------------------------------
(* C17 - the floor of the score *)

\* C17: for every input the score is at least the depth-rank bonus of the
\* rank (35, 25, 15, 8, and 4 from rank 5 on), and so at least 0.
C17_ScoreAtLeastRankBonus ==
    out.fn = "_calculate_breakout_score" =>
        /\ RLe(RInt(IF out.depth_rank \in DOMAIN DEPTH_RANK_BONUSES
                    THEN DEPTH_RANK_BONUSES[out.depth_rank]
                    ELSE DEFAULT_RANK_BONUS), out.result)
        /\ RLe(RInt(0), out.result)

----------------------------------------------------------------------------
(* C18 - unavailable upstream data *)

\* The three cases of unavailable data on date d: nobody's latest injury
\* record is Out or Doubtful, no season-stats row exists, or no season-stats
\* row of an injured player passes the thresholds of a prominent player.
NoInjuryRow(d) == LatestInjuries(injuries, d) = {}
NoSeasonStatsRow == seasonStats = {}
NoProminentRow(d) ==
    \A r \in LatestInjuries(injuries, d) : \A row \in seasonStats :
        row.player = r.player =>
            \/ row.gp < PROMINENT_MIN_GP
            \/ row.min < PROMINENT_MIN_THRESHOLD * row.gp

Unavailable(d) == NoInjuryRow(d) \/ NoSeasonStatsRow \/ NoProminentRow(d)

\* C18: a run over unavailable data goes from find_injured straight to its
\* end, the program raises nothing (the only way to fail is a statement the
\* database fails), and once ended the run has written no row, counts zero
\* records, and is recorded as success unless the database failed.
C18_UnavailableDataIsSuccess ==
    /\ \A s \in Slots :
          (runs[s].pc # "idle" /\ Unavailable(runs[s].as_of_date)) =>
              /\ runs[s].pc \in {"find_injured", "mark_success", "failed"}
              /\ runs[s].records = 0
              /\ runs[s].pc = "failed" => runs[s].error = "OperationalError"
    /\ \A r \in RunsSoFar :
          (Ended(r) /\ Unavailable(hist[r].as_of_date)) =>
              /\ hist[r].after = hist[r].before
              /\ PlanOf(r) = <<>>
              /\ pipelineRuns[r].records_processed = 0
              /\ \/ Succeeded(r)
                 \/ pipelineRuns[r].error_message = "OperationalError"

\* Two runs have ended with success: the first has injured players but no
\* season-stats row at all, or nobody injured, or nobody prominent.
C18_Witness ==
    /\ Len(pipelineRuns) = 2
    /\ \A r \in RunsSoFar : Succeeded(r) /\ Unavailable(hist[r].as_of_date)
    /\ candidates = {}
    /\ \/ NoSeasonStatsRow /\ ~NoInjuryRow(hist[1].as_of_date)
       \/ NoInjuryRow(hist[1].as_of_date) /\ ~NoSeasonStatsRow /\ injuries # {}
       \/ /\ ~NoInjuryRow(hist[1].as_of_date)
          /\ ~NoSeasonStatsRow
          /\ NoProminentRow(hist[1].as_of_date)

----------------------------------------------------------------------------
(* C19 - an injured player without candidates *)

\* The candidate pool of an injured player: the season-stats rows of the
\* latest snapshot of his teammates that meet TEAMMATE_MIN_GP and
\* TEAMMATE_MIN_THRESHOLD and pass the position filter.
CandidatePool(injured) ==
    {row \in seasonStats :
        /\ row.as_of_date = GetLatestStatsDate(seasonStats)
        /\ row.team = injured.team_id
        /\ row.player # injured.player_id
        /\ row.gp >= TEAMMATE_MIN_GP
        /\ row.min >= TEAMMATE_MIN_THRESHOLD * row.gp
        /\ InGroup(injured.position, position[row.player])}

ProminentInjuredOf(r) ==
    LET injured == GetProminentInjuredPlayers(injuries, seasonStats, position,
                                              scanOrder, hist[r].as_of_date)
    IN  {injured[i] : i \in 1..Len(injured)}

RowsEmittedFor(r, injured) ==
    {row \in hist[r].after : /\ row.pipeline_run_id = r
                             /\ row.injured_player_id = injured.player_id}

\* C19: when the candidate pool of a prominent injured player of a run is
\* empty, the ended run has emitted no row for him, it has failed only if the
\* database failed a statement, and if it succeeded every candidate of every
\* other prominent injured player of the run has a row written by the run.
C19_EmptyPoolSkipsOnlyThatPlayer ==
    \A r \in RunsSoFar :
        Ended(r) =>
            \A injured \in ProminentInjuredOf(r) :
                CandidatePool(injured) = {} =>
                    /\ RowsEmittedFor(r, injured) = {}
                    /\ \/ Succeeded(r)
                       \/ pipelineRuns[r].error_message = "OperationalError"
                    /\ Succeeded(r) =>
                          \A other \in ProminentInjuredOf(r) :
                              \A row \in CandidatePool(other) :
                                  \E stored \in hist[r].after :
                                      /\ stored.beneficiary_player_id = row.player
                                      /\ stored.as_of_date = hist[r].as_of_date
                                      /\ stored.pipeline_run_id = r

\* A successful run met the injured player without candidates first and
\* then wrote the rows of another injured player.
C19_Witness ==
    \E r \in RunsSoFar :
        /\ Succeeded(r)
        /\ pipelineRuns[r].records_processed >= 1
        /\ Len(PlanOf(r)) = pipelineRuns[r].records_processed
        /\ \E injured \in ProminentInjuredOf(r) :
               /\ CandidatePool(injured) = {}
               /\ \E other \in ProminentInjuredOf(r) :
                      /\ RowsEmittedFor(r, other) # {}
                      /\ injured.player_id < other.player_id
        /\ scanOrder = Ascending

----------------------------------------------------------------------------
(* C20 - a failure fails the whole run *)

\* C20: in every step, a read or an upsert that raises moves the run to its
\* failure handler without writing; a run in its failure handler writes no
\* row, processes nothing more and ends recorded as failed; a run is recorded
\* as success only from the end of execute with no error raised; and a run
\* recorded as failed stays failed.
C20_FailureFailsWholeRun ==
    [][/\ \A s \in Slots :
            /\ (runs[s].error = "" /\ runs'[s].error # "") =>
                  /\ runs'[s].pc = "failed"
                  /\ runs'[s].records = runs[s].records
                  /\ candidates' = candidates
            /\ runs[s].pc = "failed" =>
                  /\ candidates' = candidates
                  /\ nextId' = nextId
                  /\ runs'[s] = IdleRun
                  /\ pipelineRuns'[runs[s].run_id].status = "failed"
                  /\ pipelineRuns'[runs[s].run_id].error_message = runs[s].error
            /\ (/\ runs[s].pc # "idle"
                /\ pipelineRuns'[runs[s].run_id].status = "success") =>
                  runs[s].pc = "mark_success" /\ runs[s].error = ""
       /\ \A r \in RunsSoFar :
            pipelineRuns[r].status = "failed" => pipelineRuns'[r].status = "failed"]_vars

\* An upsert has raised after the run wrote a row, with candidates of its
\* plan still to come.
C20_Witness ==
    \E s \in Slots :
        /\ runs[s].pc = "failed"
        /\ runs[s].error = "OperationalError"
        /\ runs[s].records >= 1
        /\ runs[s].args # <<>>
        /\ runs[s].records + 1 < Len(PlanOf(runs[s].run_id))

----------------------------------------------------------------------------
(* C23 - empirical delta first, rank share otherwise *)

\* The shares the rule gives: 0.35, 0.25, 0.15, and 0.10 from rank 4 on.
ShareOfRank(depth_rank) ==
    CASE depth_rank = 1 -> Rat(35, 100)
      [] depth_rank = 2 -> Rat(25, 100)
      [] depth_rank = 3 -> Rat(15, 100)
      [] OTHER -> Rat(10, 100)

----------------------------------------------------------------------------
(* C24 - the harness turns an exception into a failed run *)

\* The run of slot s returns in this step.
Returns(s) == runs[s].pc # "idle" /\ runs'[s].pc = "idle"

\* C24: in every step in which a run returns, its record was 'running'; if
\* an exception was raised the record becomes 'failed' and run() returns an
\* error result carrying it, and if none was raised the record becomes
\* 'success' and run() returns a success result; after every step, each
\* record in status 'running' belongs to a run that has not returned yet.
C24_ExceptionBecomesFailedRun ==
    [][/\ \A s \in Slots :
            Returns(s) =>
                LET r == runs[s].run_id
                IN  /\ pipelineRuns[r].status = "running"
                    /\ out'.fn = "run" /\ out'.run_id = r
                    /\ IF runs[s].error # ""
                       THEN /\ pipelineRuns'[r].status = "failed"
                            /\ pipelineRuns'[r].error_message = runs[s].error
                            /\ out'.status = "error"
                            /\ out'.error = runs[s].error
                       ELSE /\ pipelineRuns'[r].status = "success"
                            /\ out'.status = "success"
       /\ \A r \in 1..Len(pipelineRuns') :
            pipelineRuns'[r].status = "running" =>
                \E s \in Slots : runs'[s].pc # "idle" /\ runs'[s].run_id = r]_vars

\* A run has just returned an error result for the exception of one of its
\* statements; a run that overlapped it had ended with success before.
C24_Witness ==
    /\ out.fn = "run"
    /\ out.status = "error"
    /\ out.error = "OperationalError"
    /\ pipelineRuns[out.run_id].status = "failed"
    /\ \E r \in RunsSoFar :
          /\ Succeeded(r)
          /\ pipelineRuns[out.run_id].started_at < pipelineRuns[r].completed_at
          /\ pipelineRuns[r].completed_at < pipelineRuns[out.run_id].completed_at

----------------------------------------------------------------------------
(* C26 - a teammate of two injured players *)

\* Upserts i < j of run r are for the same teammate and for two injured
\* players, and j is the last upsert of the run for that teammate.
SharedTeammate(r, i, j) ==
    LET plan == PlanOf(r)
    IN  /\ i < j
        /\ plan[i].beneficiary_player_id = plan[j].beneficiary_player_id
        /\ plan[i].injured_player_id # plan[j].injured_player_id
        /\ \A k \in (j + 1)..Len(plan) :
              plan[k].beneficiary_player_id # plan[j].beneficiary_player_id

RowsOfDate(tbl, as_of_date) == {row \in tbl : row.as_of_date = as_of_date}

\* C26: when a successful run upserts one teammate for two injured players,
\* the rows stored for (teammate, as_of_date) are one row, which holds the
\* injured player, depth rank, boost and score computed for the injured
\* player processed last, no stored row of that date pairs the teammate with
\* an injured player processed earlier, and records_processed counts every
\* upsert of the run, which is more than the rows the run stored for the date.
C26_LastInjuredWins ==
    \A r \in RunsSoFar :
        Succeeded(r) =>
            \A i \in 1..Len(PlanOf(r)) : \A j \in 1..Len(PlanOf(r)) :
                SharedTeammate(r, i, j) =>
                    LET early == PlanOf(r)[i]
                        late == PlanOf(r)[j]
                        stored == StoredFor(hist[r].after, late.beneficiary_player_id,
                                            hist[r].as_of_date)
                    IN  /\ Cardinality(stored) = 1
                        /\ \A row \in stored :
                              /\ row.injured_player_id = late.injured_player_id
                              /\ row.depth_rank = late.depth_rank
                              /\ row.projected_min_boost = late.projected_min_boost
                              /\ row.breakout_score = late.breakout_score
                              /\ row.injured_player_id # early.injured_player_id
                        /\ pipelineRuns[r].records_processed = Len(PlanOf(r))
                        /\ pipelineRuns[r].records_processed >
                              Cardinality({row \in RowsOfDate(hist[r].after,
                                                              hist[r].as_of_date) :
                                              row.pipeline_run_id = r})

\* A successful run computed a different rank or score for one teammate of
\* two injured players; one row is stored for him and two records counted.
C26_Witness ==
    \E r \in RunsSoFar :
        /\ Succeeded(r)
        /\ \E i \in 1..Len(PlanOf(r)) : \E j \in 1..Len(PlanOf(r)) :
              /\ SharedTeammate(r, i, j)
              /\ \/ PlanOf(r)[i].depth_rank # PlanOf(r)[j].depth_rank
                 \/ PlanOf(r)[i].breakout_score # PlanOf(r)[j].breakout_score
        /\ Cardinality(RowsOfDate(hist[r].after, hist[r].as_of_date)) = 1
        /\ pipelineRuns[r].records_processed = 2

----------------------------------------------------------------------------
(* The injury feed: ESPNInjuryStatusPipeline.execute writing the table that *)
(* _get_prominent_injured_players reads.  clock is the calendar day, hist   *)
(* the feeds processed so far.                                              *)

MaxFeeds == 2

\* ESPN_STATUS_MAP.get(raw_status.upper(), "Out"), raw_status = injury_status or "OUT"
EspnStatus(injury_status) ==
    LET raw_status == IF injury_status = "" THEN "OUT" ELSE injury_status
    IN  CASE raw_status \in {"OUT", "SUSPENSION", "INJURY_RESERVE"} -> "Out"
          [] raw_status = "DOUBTFUL" -> "Doubtful"
          [] raw_status \in {"QUESTIONABLE", "DAY_TO_DAY"} -> "Questionable"
          [] raw_status = "PROBABLE" -> "Probable"
          [] raw_status = "ACTIVE" -> "Available"
          [] OTHER -> "Out"

\* What the source says of one player: not injured, or injured with a status.
NotInjured == [injured |-> FALSE, injury_status |-> ""]
EspnInfos ==
    {NotInjured} \cup
    {[injured |-> TRUE, injury_status |-> st] : st \in {"OUT", "DAY_TO_DAY", ""}}

\* The source reports on the two starters; the bench is never injured.
EspnFeeds == [Starters -> EspnInfos]

\* PlayerInjury.upsert_injury: one row per (player, report_date), last write wins.
UpsertInjury(tbl, player_id, report_date, status) ==
    {r \in tbl : ~(r.player = player_id /\ r.report_date = report_date)}
        \cup {[player |-> player_id, report_date |-> report_date, status |-> status]}

\* The loop of execute: players not marked injured are skipped.
RECURSIVE SyncInjuries(_, _, _, _)
SyncInjuries(tbl, espn_data, todo, report_date) ==
    IF todo = {} THEN tbl
    ELSE LET p == CHOOSE q \in todo : TRUE
             info == espn_data[p]
         IN  SyncInjuries(
                 IF ~info.injured THEN tbl
                 ELSE UpsertInjury(tbl, p, report_date, EspnStatus(info.injury_status)),
                 espn_data, todo \ {p}, report_date)

InitFeed ==
    /\ injuries = {}
    /\ seasonStats = StatsScenario(FALSE)
    /\ position = PositionScenario(FALSE)
    /\ gameStats = GameScenario
    /\ scanOrder = Ascending
    /\ Fresh

\* One run of the injury pipeline on the current day.
EspnInjuryStatusExecute(espn_data) ==
    /\ Len(hist) < MaxFeeds
    /\ injuries' = SyncInjuries(injuries, espn_data, DOMAIN espn_data, clock)
    /\ hist' = Append(hist, [report_date |-> clock, espn_data |-> espn_data])
    /\ UNCHANGED <<jobs, seasonStats, position, gameStats, scanOrder, candidates,
                   nextId, pipelineRuns, runs, clock, out>>

\* The next calendar day begins.
NextDay ==
    /\ clock < MaxDate
    /\ clock' = clock + 1
    /\ UNCHANGED <<jobs, dbVars, candidates, nextId, pipelineRuns, runs, hist, out>>

\* A detection run of the current day reads the prominent injured players.
DetectToday ==
    /\ out' = [fn |-> "_get_prominent_injured_players",
               as_of_date |-> clock,
               feeds |-> Len(hist),
               result |-> GetProminentInjuredPlayers(injuries, seasonStats,
                              position, scanOrder, clock)]
    /\ UNCHANGED <<jobs, dbVars, candidates, nextId, pipelineRuns, runs, clock, hist>>

NextFeed ==
    \/ \E espn_data \in EspnFeeds : EspnInjuryStatusExecute(espn_data)
    \/ NextDay
    \/ DetectToday

SpecFeed == InitFeed /\ [][NextFeed]_vars

----------------------------------------------------------------------------
(* C21 - no record for the day means available *)

\* The feeds a detection call has seen.
FeedsSeen == IF out = NoCall THEN {} ELSE 1..out.feeds

\* Player p was written Out on an earlier day, and every feed of day d2 (at
\* least one) no longer reports him as injured, so that no record of p is
\* written for d2.
WentOffTheReport(p, d2) ==
    /\ \E i \in FeedsSeen :
          /\ hist[i].report_date < d2
          /\ hist[i].espn_data[p].injured
          /\ EspnStatus(hist[i].espn_data[p].injury_status) = "Out"
    /\ \E j \in FeedsSeen : hist[j].report_date = d2
    /\ \A j \in FeedsSeen :
          hist[j].report_date = d2 => ~hist[j].espn_data[p].injured

\* C21: a detection run with as_of_date d2 does not treat as a prominent
\* injured player a player who was written Out on an earlier day and for whom
\* the injury pipeline wrote no record on d2 because the source no longer
\* reports him as injured.
C21_AbsentRecordMeansAvailable ==
    out # NoCall =>
        \A p \in Starters :
            WentOffTheReport(p, out.as_of_date) =>
                p \notin PlayerIds(out.result)

----------------------------------------------------------------------------
(* Detection runs with an injury report in between: once the first run has  *)
(* returned, the injury pipeline writes one record for a starter.           *)

\* PlayerInjury.upsert_injury as called by ESPNInjuryStatusPipeline.execute
\* for one player the source lists with injury_status.
InjuryReport(player_id, report_date, injury_status) ==
    /\ out # NoCall
    /\ out.fn = "run"
    /\ Len(pipelineRuns) = 1
    /\ injuries' = UpsertInjury(injuries, player_id, report_date,
                                EspnStatus(injury_status))
    /\ out' = [fn |-> "upsert_injury", player_id |-> player_id,
               report_date |-> report_date, status |-> EspnStatus(injury_status)]
    /\ UNCHANGED <<jobs, seasonStats, position, gameStats, scanOrder, candidates,
                   nextId, pipelineRuns, runs, clock, hist>>

\* Both starters Out before the first run, in one position group or two.
InitReported ==
    /\ injuries = InjuryScenario("Out")
    /\ seasonStats = StatsScenario(FALSE)
    /\ \E split \in BOOLEAN : position = PositionScenario(split)
    /\ gameStats = GameScenario
    /\ scanOrder \in {Ascending, Descending}
    /\ Fresh

NextReported ==
    \/ NextSeq
    \/ \E player_id \in Starters : \E report_date \in AsOfDates :
       \E injury_status \in {"ACTIVE", "DAY_TO_DAY"} :
          InjuryReport(player_id, report_date, injury_status)

SpecReported == InitReported /\ [][NextReported]_vars

----------------------------------------------------------------------------
(* C27 - what a run leaves alone *)

\* The upsert the run of slot s is about to write has the key of row.
WritesKeyOf(s, row) ==
    /\ runs[s].pc = "upsert_write"
    /\ KeyMatches(row, runs[s].args)

\* C27: no step deletes a row (every stored row is stored afterwards, under
\* its id and key), and a row changes only in the write of an upsert of its
\* own (beneficiary_player_id, as_of_date); a new row has the key of the
\* upsert that is written.
C27_OnlyUpsertedKeysChange ==
    [][/\ \A row \in candidates :
            /\ \E kept \in candidates' :
                  /\ kept.id = row.id
                  /\ kept.beneficiary_player_id = row.beneficiary_player_id
                  /\ kept.as_of_date = row.as_of_date
            /\ row \notin candidates' => \E s \in Slots : WritesKeyOf(s, row)
       /\ \A new \in candidates' \ candidates :
            \E s \in Slots : WritesKeyOf(s, new)]_vars

\* The second run of a date has ended with success and has written rows; a
\* row of that date written by the first run, for a teammate the second run
\* does not emit, is still stored as the first run left it.
C27_Witness ==
    /\ Len(pipelineRuns) = 2
    /\ Succeeded(1) /\ Succeeded(2)
    /\ hist[1].as_of_date = hist[2].as_of_date
    /\ pipelineRuns[2].records_processed >= 1
    /\ \E row \in candidates :
          /\ row.pipeline_run_id = 1
          /\ row.as_of_date = hist[2].as_of_date
          /\ row \in hist[1].after
          /\ \A k \in 1..Len(PlanOf(2)) :
                PlanOf(2)[k].beneficiary_player_id # row.beneficiary_player_id

----------------------------------------------------------------------------
(* C28 - opportunity data of an emitted row *)

\* The candidate of the upsert the run of slot s is about to write.
CandidateOfWrite(s) == runs[s].chart[runs[s].ci]

\* What the validator returned for that upsert (lines 181-187), unrounded.
OppOfWrite(s) ==
    LET run == runs[s]
    IN  GetPositionValidatedOpportunityStats(
            gameStats, CandidateOfWrite(s).player_id, CandidateOfWrite(s).avg_min,
            run.injured[run.ii].team_id,
            PositionPeerIds(run.injured[run.ii], run.chart)
                \ {CandidateOfWrite(s).player_id},
            run.as_of_date, LOOKBACK_DAYS)

EmitsOpportunityData(s) ==
    /\ runs[s].pc = "upsert_write"
    /\ runs[s].args.opp_min_avg # None

\* C28: for every row execute emits with opportunity data, the unrounded
\* opportunity minutes average is at least max(1.25 x the beneficiary's
\* average minutes, 20), the projected boost is that average minus the
\* beneficiary's average and is strictly positive (the row stores it rounded),
\* and so is the minutes delta of the scorer.
C28_OpportunityAverageAboveBaseline ==
    \A s \in Slots :
       EmitsOpportunityData(s) =>
          LET run == runs[s]
              baseline == CandidateOfWrite(s).avg_min
              opp == OppOfWrite(s)
              boost == EstimateMinBoost(run.injured[run.ii].avg_min, baseline,
                           opp.min, CandidateOfWrite(s).depth_rank, Len(run.chart))
              min_delta == RSub(opp.min[1], baseline)
          IN  /\ opp.min # None
              /\ RLe(RMax(RMul(baseline, Rat(125, 100)), RInt(20)), opp.min[1])
              /\ boost = min_delta
              /\ RLt(RInt(0), boost)
              /\ RLt(RInt(0), min_delta)
              /\ run.args.opp_min_avg = Some(Round1(opp.min[1]))
              /\ run.args.projected_min_boost = Round1(min_delta)

\* A row with opportunity data is about to be written: two opportunity
\* games, a beneficiary average above 16 (so 1.25 x the average is the
\* threshold), and a positive boost.
C28_Witness ==
    \E s \in Slots :
       /\ EmitsOpportunityData(s)
       /\ runs[s].args.opp_game_count >= MIN_OPP_SAMPLES
       /\ RLt(RInt(16), CandidateOfWrite(s).avg_min)
       /\ RLt(RInt(0), RSub(OppOfWrite(s).min[1], CandidateOfWrite(s).avg_min))

----------------------------------------------------------------------------
(* C29 - the peers of a validator call *)

\* The run of slot s has called the validator for its current candidate.
ValidatorCalledBy(s) == runs[s].pc = "upsert_write"

\* position_peer_ids of that call (line 185)
PeersOfCall(s) ==
    PositionPeerIds(runs[s].injured[runs[s].ii], runs[s].chart)
        \ {CandidateOfWrite(s).player_id}

\* C29: in every validator call of execute, position_peer_ids is not empty,
\* holds the injured player and every other member of the depth chart, and
\* does not hold the candidate; the call does not take the empty-peers
\* return.
C29_PeersAreInjuredAndOtherMembers ==
    \A s \in Slots :
       ValidatorCalledBy(s) =>
          LET run == runs[s]
              injured_id == run.injured[run.ii].player_id
              candidate_id == CandidateOfWrite(s).player_id
          IN  /\ PeersOfCall(s) # {}
              /\ injured_id \in PeersOfCall(s)
              /\ candidate_id \notin PeersOfCall(s)
              /\ \A c \in 1..Len(run.chart) :
                    c # run.ci => run.chart[c].player_id \in PeersOfCall(s)
              /\ \A p \in PeersOfCall(s) :
                    \/ p = injured_id
                    \/ \E c \in 1..Len(run.chart) :
                          c # run.ci /\ run.chart[c].player_id = p

\* A call for a candidate of a depth chart of two: the peers are the injured
\* player and the other member.
C29_Witness ==
    \E s \in Slots :
       /\ ValidatorCalledBy(s)
       /\ Len(runs[s].chart) >= 2
       /\ Cardinality(PeersOfCall(s)) = Len(runs[s].chart)

----------------------------------------------------------------------------
(* Background jobs of the pipeline API: JobManager, the post-game and the   *)
(* run-all triggers, and _run_pipelines_background.  A handler runs on the  *)
(* event loop without suspending (its database calls are synchronous and    *)
(* the manager's lock is never held across a suspension), so each is one    *)
(* step; a background task suspends while a pipeline runs in its worker     *)
(* thread.  clock is the NBA date (one date: the requests of one evening),  *)
(* runs the background tasks, pipelineRuns the dedup markers, hist the      *)
(* unforced post-game batches started.  Timestamps other than the creation  *)
(* order of the jobs are left out.                                          *)

MAX_JOBS == 100

NPipelines == 1
MaxBatches == 2

\* The keys of PIPELINE_REGISTRY, in registration order.
RegistryOrder ==
    <<"player_game_stats", "player_ownership", "player_season_stats",
      "daily_matchup_scores", "player_rolling_stats", "team_stats",
      "player_advanced_stats", "game_schedule", "game_start_times",
      "espn_injury_status", "breakout_detection", "player_profiles">>

\* The pipelines whose config has post_game_excluded=True.
PostGameExcluded == {"daily_matchup_scores"}

\* The registry of the model: the first NPipelines pipelines and the one
\* the post-game batch leaves out, in registration order.
PIPELINE_REGISTRY ==
    SelectSeq(RegistryOrder,
        LAMBDA name : name \in {RegistryOrder[k] : k \in 1..NPipelines}
                                  \cup PostGameExcluded)

POST_GAME_PIPELINE_NAMES ==
    SelectSeq(PIPELINE_REGISTRY, LAMBDA name : name \notin PostGameExcluded)

Terminal == {"completed", "failed"}

NoResults == [name \in {} |-> ""]

\* PipelineJob(job_id, status=PENDING, created_at, pipelines_total)
NewJob(job_id, pipeline_count) ==
    [job_id |-> job_id, status |-> "pending", created_at |-> job_id,
     pipelines_total |-> pipeline_count, pipelines_completed |-> 0,
     pipelines_failed |-> 0, current_pipeline |-> "", results |-> NoResults,
     error |-> ""]

JobIds(js) == {js[k].job_id : k \in 1..Len(js)}

\* self._jobs.get(job_id): the position of the job, 0 for None
JobIndex(js, job_id) ==
    IF job_id \in JobIds(js)
    THEN CHOOSE k \in 1..Len(js) : js[k].job_id = job_id
    ELSE 0

\* Variant: the oldest half of all the stored jobs is removed.
PruneOldestHalf(js) == SubSeq(js, Len(js) \div 2 + 1, Len(js))

\* _prune_old_jobs: the oldest half of the completed and failed jobs goes.
PruneOldJobs(js) ==
    LET completed == SelectSeq(js, LAMBDA j : j.status \in Terminal)
        to_remove == Len(completed) \div 2
        removed == {completed[k].job_id : k \in 1..to_remove}
    IN  SelectSeq(js, LAMBDA j : j.job_id \notin removed)

\* create_job under the lock
CreateJob(js, job_id, pipeline_count) ==
    Append(IF Len(js) >= MAX_JOBS THEN PruneOldJobs(js) ELSE js,
           NewJob(job_id, pipeline_count))

UpdateJobStarted(js, job_id) ==
    LET k == JobIndex(js, job_id)
    IN  IF k = 0 THEN js ELSE [js EXCEPT ![k].status = "running"]

UpdateCurrentPipeline(js, job_id, pipeline_name) ==
    LET k == JobIndex(js, job_id)
    IN  IF k = 0 THEN js ELSE [js EXCEPT ![k].current_pipeline = pipeline_name]

DictSet(d, key, value) ==
    [x \in DOMAIN d \cup {key} |-> IF x = key THEN value ELSE d[x]]

AddPipelineResult(js, job_id, pipeline_name, result) ==
    LET k == JobIndex(js, job_id)
    IN  IF k = 0 THEN js
        ELSE [js EXCEPT
                ![k].results = DictSet(@, pipeline_name, result),
                ![k].pipelines_completed = @ + 1,
                ![k].pipelines_failed =
                    IF result.status # "success" THEN @ + 1 ELSE @,
                ![k].current_pipeline = ""]

CompleteJob(js, job_id, success, error) ==
    LET k == JobIndex(js, job_id)
    IN  IF k = 0 THEN js
        ELSE [js EXCEPT
                ![k].status = IF success THEN "completed" ELSE "failed",
                ![k].current_pipeline = "",
                ![k].error = error]

\* _finalize_dedup_run; dedup_run_id 0 stands for None
FinalizeDedupRun(prs, dedup_run_id, success) ==
    IF dedup_run_id = 0 THEN prs
    ELSE [prs EXCEPT ![dedup_run_id] =
            IF success THEN [@ EXCEPT !.status = "success"]
            ELSE [@ EXCEPT !.status = "failed",
                           !.error_message = "Pipeline(s) failed"]]

\* dedup_key = f"post_game_trigger_{nba_date.isoformat()}"
DedupKey(nba_date) == <<"post_game_trigger", nba_date>>

IdleTask == [pc |-> "idle", job_id |-> 0, pipeline_names |-> <<>>, i |-> 0,
             dedup_run_id |-> 0]

FreeSlots == {t \in Slots : runs[t].pc = "idle"}

\* asyncio.create_task(_run_pipelines_background(...)) in the first free slot
CreateTask(job_id, pipeline_names, dedup_run_id) ==
    LET t == CHOOSE u \in FreeSlots : \A v \in FreeSlots : u <= v
    IN  [runs EXCEPT ![t] =
            [pc |-> "pending", job_id |-> job_id,
             pipeline_names |-> pipeline_names, i |-> 0,
             dedup_run_id |-> dedup_run_id]]

PipelineOutcomes == {"success", "error", "raised"}

\* JobResultInternal of a pipeline that returned (its own status) or raised
\* (status "error"); the texts of the result are left out.
JobResult(outcome) ==
    IF outcome = "success" THEN [status |-> "success"] ELSE [status |-> "error"]

\* The jobs stored before the first modelled request (ids below MAX_JOBS),
\* all running or one in three; a running job's pipeline stays in its worker
\* thread.
BacklogJob(k, status) ==
    IF status \in Terminal
    THEN [NewJob(k, Len(PIPELINE_REGISTRY)) EXCEPT
            !.status = status,
            !.pipelines_completed = Len(PIPELINE_REGISTRY),
            !.pipelines_failed = IF status = "failed" THEN 1 ELSE 0,
            !.results =
                [name \in {PIPELINE_REGISTRY[x] : x \in 1..Len(PIPELINE_REGISTRY)} |->
                    IF status = "failed" /\ name = PIPELINE_REGISTRY[1]
                    THEN JobResult("error")
                    ELSE JobResult("success")]]
    ELSE [NewJob(k, Len(PIPELINE_REGISTRY)) EXCEPT
            !.status = "running", !.current_pipeline = PIPELINE_REGISTRY[1]]

Backlog(n, kind) ==
    [k \in 1..n |->
        BacklogJob(k, IF kind = "busy" \/ k % 3 = 0 THEN "running"
                      ELSE IF k % 3 = 1 THEN "completed"
                      ELSE "failed")]

InitJobs ==
    /\ \/ jobs = <<>>
       \/ \E kind \in {"busy", "mixed"} : jobs = Backlog(MAX_JOBS - 1, kind)
    /\ nextId = MAX_JOBS
    /\ pipelineRuns = <<>>
    /\ runs = [t \in Slots |-> IdleTask]
    /\ clock = 1
    /\ hist = <<>>
    /\ out = NoCall
    /\ candidates = {}
    /\ injuries = {}
    /\ seasonStats = {}
    /\ position = [p \in Players |-> ""]
    /\ gameStats = {}
    /\ scanOrder = Ascending

PostGameGates == {"no_games", "outside_window", "scoreboard_error", "not_final", "pass"}

\* POST /post-game: a call that a gate or the dedup check turns away returns
\* without a trace; the others start a batch.
TriggerPostGame(force, gate) ==
    LET nba_date == clock
        dedup_key == DedupKey(nba_date)
        already_ran ==
            \E r \in 1..Len(pipelineRuns) :
                /\ pipelineRuns[r].pipeline_name = dedup_key
                /\ pipelineRuns[r].status = "success"
        dedup_run_id == IF force THEN 0 ELSE Len(pipelineRuns) + 1
    IN  IF ~force /\ gate # "pass"
        THEN UNCHANGED vars
        ELSE IF ~force /\ already_ran
        THEN UNCHANGED vars
        ELSE /\ FreeSlots # {}
             /\ nextId < MAX_JOBS + MaxBatches
             /\ pipelineRuns' =
                   IF force THEN pipelineRuns
                   ELSE Append(pipelineRuns,
                          [pipeline_name |-> dedup_key, status |-> "running",
                           started_at |-> clock, completed_at |-> 0,
                           records_processed |-> 0, error_message |-> ""])
             /\ jobs' = CreateJob(jobs, nextId, Len(POST_GAME_PIPELINE_NAMES))
             /\ nextId' = nextId + 1
             /\ runs' = CreateTask(nextId, POST_GAME_PIPELINE_NAMES, dedup_run_id)
             /\ hist' = IF force THEN hist
                        ELSE Append(hist, [nba_date |-> nba_date, job_id |-> nextId])
             /\ UNCHANGED <<dbVars, candidates, clock, out>>

\* POST /all
TriggerAllPipelines ==
    /\ FreeSlots # {}
    /\ nextId < MAX_JOBS + MaxBatches
    /\ jobs' = CreateJob(jobs, nextId, Len(PIPELINE_REGISTRY))
    /\ nextId' = nextId + 1
    /\ runs' = CreateTask(nextId, PIPELINE_REGISTRY, 0)
    /\ UNCHANGED <<dbVars, candidates, pipelineRuns, clock, hist, out>>

\* The end of the batch: get_job, complete_job, _finalize_dedup_run.
FinishBatch(js, prs, task) ==
    LET k == JobIndex(js, task.job_id)
        all_success == IF k = 0 THEN FALSE ELSE js[k].pipelines_failed = 0
    IN  [jobs |-> CompleteJob(js, task.job_id, all_success, ""),
         pipelineRuns |-> FinalizeDedupRun(prs, task.dedup_run_id, all_success)]

\* _run_pipelines_background up to the first run_pipeline
StartBatch(t) ==
    LET task == runs[t]
        started == UpdateJobStarted(jobs, task.job_id)
    IN  /\ task.pc = "pending"
        /\ IF task.pipeline_names = <<>>
           THEN LET done == FinishBatch(started, pipelineRuns, task)
                IN  /\ jobs' = done.jobs
                    /\ pipelineRuns' = done.pipelineRuns
                    /\ runs' = [runs EXCEPT ![t] = IdleTask]
           ELSE /\ jobs' = UpdateCurrentPipeline(started, task.job_id,
                                                 task.pipeline_names[1])
                /\ runs' = [runs EXCEPT ![t] = [task EXCEPT !.pc = "running", !.i = 1]]
                /\ UNCHANGED pipelineRuns
        /\ UNCHANGED <<dbVars, candidates, nextId, clock, hist, out>>

\* Variant: a pipeline that raises ends the batch.
NextOrAbort(task, outcome) == IF outcome = "raised" THEN Len(task.pipeline_names) ELSE task.i

\* The position the loop is at once the current pipeline has its result.
LoopPosition(task, outcome) == task.i

\* run_pipeline returns or raises: its result is recorded, and the loop goes
\* on to the next pipeline or the batch ends.
PipelineReturns(t, outcome) ==
    LET task == runs[t]
        name == task.pipeline_names[task.i]
        recorded == AddPipelineResult(jobs, task.job_id, name, JobResult(outcome))
        at == LoopPosition(task, outcome)
    IN  /\ task.pc = "running"
        /\ IF at < Len(task.pipeline_names)
           THEN /\ jobs' = UpdateCurrentPipeline(recorded, task.job_id,
                                                 task.pipeline_names[at + 1])
                /\ runs' = [runs EXCEPT ![t] = [task EXCEPT !.i = at + 1]]
                /\ UNCHANGED pipelineRuns
           ELSE LET done == FinishBatch(recorded, pipelineRuns, task)
                IN  /\ jobs' = done.jobs
                    /\ pipelineRuns' = done.pipelineRuns
                    /\ runs' = [runs EXCEPT ![t] = IdleTask]
        /\ UNCHANGED <<dbVars, candidates, nextId, clock, hist, out>>

NextJobs ==
    \/ \E gate \in PostGameGates : TriggerPostGame(FALSE, gate)
    \/ TriggerPostGame(TRUE, "bypassed")
    \/ TriggerAllPipelines
    \/ \E t \in Slots : StartBatch(t)
    \/ \E t \in Slots : \E outcome \in PipelineOutcomes : PipelineReturns(t, outcome)

SpecJobs == InitJobs /\ [][NextJobs]_vars

----------------------------------------------------------------------------
(* C22 - one post-game batch per NBA date *)

UnforcedPostGameBatches(nba_date) ==
    {k \in 1..Len(hist) : hist[k].nba_date = nba_date}

\* C22: whatever the sequence or overlap of unforced POST /post-game calls
\* that pass the gates, at most one of the calls of an NBA date starts a
\* background batch.
C22_OneBatchPerDate ==
    \A nba_date \in Dates : Cardinality(UnforcedPostGameBatches(nba_date)) <= 1

----------------------------------------------------------------------------
(* C25 - the size of the job store *)

\* C25: the job manager never stores more than MAX_JOBS jobs, whatever the
\* statuses of the stored jobs.
C25_AtMostMaxJobs == Len(jobs) <= MAX_JOBS

----------------------------------------------------------------------------
(* C30 - a background batch run to its end *)

NamesOf(task) == {task.pipeline_names[k] : k \in 1..Len(task.pipeline_names)}

Unfinished == {"pending", "running"}

\* The job that was at place k is in js, at its place or at another one.
StillStored(job_id, k, js) ==
    \/ k <= Len(js) /\ js[k].job_id = job_id
    \/ job_id \in JobIds(js)

\* The job of a batch at the step in which its task ends.
EndsWellFormed(task, job) ==
    /\ DOMAIN job.results = NamesOf(task)
    /\ job.pipelines_completed = job.pipelines_total
    /\ job.pipelines_total = Len(task.pipeline_names)
    /\ job.pipelines_failed <= job.pipelines_completed
    /\ job.pipelines_failed =
          Cardinality({name \in NamesOf(task) : job.results[name].status # "success"})
    /\ job.status = IF job.pipelines_failed = 0 THEN "completed" ELSE "failed"

\* C30: when a background task ends, its job holds one result for each of
\* its pipelines (also for those that raised, and for those after them),
\* pipelines_failed <= pipelines_completed = pipelines_total, and the status
\* is completed exactly when pipelines_failed = 0 and failed otherwise; and
\* no step (so no pruning by create_job) removes a pending or running job.
C30_BatchRunsEveryPipeline ==
    [][/\ \A t \in Slots :
            (runs[t].pc \in Unfinished /\ runs'[t].pc = "idle") =>
                \E k \in 1..Len(jobs') :
                   /\ jobs'[k].job_id = runs[t].job_id
                   /\ EndsWellFormed(runs[t], jobs'[k])
       /\ \A k \in 1..Len(jobs) :
            jobs[k].status \in Unfinished => StillStored(jobs[k].job_id, k, jobs')]_vars

\* A batch of two pipelines has ended as failed: the first failed (it
\* raised or returned an error), the second ran after it and succeeded; its
\* job was created by a create_job that pruned, and the running jobs older
\* than it are all still stored.
C30_Witness ==
    \E k \in 1..Len(jobs) :
       LET job == jobs[k]
       IN  /\ job.job_id >= MAX_JOBS
           /\ job.status = "failed"
           /\ job.pipelines_total = 2
           /\ job.pipelines_completed = 2
           /\ job.pipelines_failed = 1
           /\ job.results[PIPELINE_REGISTRY[1]].status = "error"
           /\ job.results[PIPELINE_REGISTRY[2]].status = "success"
           /\ Len(jobs) < job.job_id
           /\ \A x \in 1..(MAX_JOBS - 1) :
                 x % 3 = 0 => \E y \in 1..Len(jobs) :
                    jobs[y].job_id = x /\ jobs[y].status = "running"

====
